---- MODULE Spec2Model ----
(***************************************************************************)
(* Lowering of Fortran I/O statements to calls of the I/O runtime          *)
(* (flang/lib/Lower/IO.cpp), together with the execution of the emitted    *)
(* operations.                                                             *)
(*                                                                         *)
(* A behaviour lowers one statement (one action per statement generator,   *)
(* each translating the whole generator) and then runs the emitted         *)
(* operations one at a time, the results of the runtime calls being        *)
(* chosen nondeterministically.                                            *)
(***************************************************************************)
EXTENDS Integers, Sequences, FiniteSets, TLC

VARIABLES stmt,      \* the statement being lowered (parse-tree record)
          ir,        \* builder state: blocks of emitted operations
          pc,        \* "lower", "exec", "done", "crash"
          stack,     \* execution: stack of <<block, index, iteration>> frames
          env,       \* execution: SSA value id -> integer
          store,     \* execution: program variable -> integer
          trace,     \* execution: the runtime calls made, in order
          fails,     \* execution: number of runtime calls that returned failure
          loopLog,   \* execution: the last loop iteration and the last loop ended
          round,     \* 1: the statement as written, 2: its unchecked twin
          prevTrace  \* the trace of round 1 (kept for round 2)

vars == <<stmt, ir, pc, stack, env, store, trace, fails, loopLog, round,
          prevTrace>>

\* ------------------------------------------------------------------ bounds
MaxElements == 2   \* elements selected by a vector subscript
MaxObjects == 2    \* variables in a NAMELIST group
MaxRequests == 3   \* requests of the description of a NAMELIST group
MaxSpecs == 3      \* specifiers in a specifier list (the unit aside)
MaxNodes == 3      \* items and implied-do loops in an item list, nested ones counted
MaxUpper == 2      \* largest upper bound of an implied-do in a statement
MaxFails == 1      \* runtime calls of one execution that report failure

\* ------------------------------------------------------------- small helpers
NULL == 0          \* the null mlir::Value / absent optional

Range(s) == {s[i] : i \in 1..Len(s)}

Last(s) == s[Len(s)]

B2I(b) == IF b THEN 1 ELSE 0

RECURSIVE SelectSeqCls(_, _)
SelectSeqCls(s, classes) ==
    IF s = <<>> THEN <<>>
    ELSE IF Head(s).cls \in classes
         THEN <<Head(s)>> \o SelectSeqCls(Tail(s), classes)
         ELSE SelectSeqCls(Tail(s), classes)

\* -------------------------------------------------- specifier classification
\* ERR, EOR, END, IOSTAT and IOMSG (lowerErrorSpec)
CondSpecs == {"IOSTAT", "IOMSG", "ERR", "END", "EOR"}

\* genIOOption's PreprocessedSpecs: processed in advance, no call, null result
PreprocessedSpecs == CondSpecs \cup {"UNIT", "FMT", "NML", "IDEXPR"}

\* threadSpecs' three visitors that return ok unchanged
DeferredSpecs == {"SIZE", "NEWUNIT", "ID"}

\* the genIOOption specialisations (a representative of each helper)
SetterSpecs == {"FILE", "STATUS", "RECL", "ADVANCE", "REC", "POS"}

\* the genInquireSpec specialisations, by the type of the inquired variable
InquireSpecs == {"EXIST", "NAME", "NEXTREC"}

SetterFunc(spec) ==
    CASE spec = "FILE" -> "SetFile"
      [] spec = "STATUS" -> "SetStatus"
      [] spec = "RECL" -> "SetRecl"
      [] spec = "ADVANCE" -> "SetAdvance"
      [] spec = "REC" -> "SetRec"
      [] spec = "POS" -> "SetPos"

InquireFunc(spec) ==
    CASE spec = "EXIST" -> "InquireLogical"
      [] spec = "NAME" -> "InquireCharacter"
      [] spec = "NEXTREC" -> "InquireInteger64"

\* ------------------------------------------------------- ConditionSpecInfo
\* A variant that keeps the last specifier of the list only.
lowerErrorSpecLast(specList) ==
    LET last == IF specList = <<>> THEN "" ELSE specList[Len(specList)]
    IN [ioStat |-> last = "IOSTAT", ioMsg |-> last = "IOMSG",
        hasErr |-> last = "ERR", hasEnd |-> last = "END",
        hasEor |-> last = "EOR"]

RECURSIVE lowerErrorSpec(_)
\* The fields start out null or false; the specifiers of the list are
\* visited in order and each condition specifier sets its field.
lowerErrorSpec(specList) ==
    IF specList = <<>>
    THEN [ioStat |-> FALSE, ioMsg |-> FALSE, hasErr |-> FALSE,
          hasEnd |-> FALSE, hasEor |-> FALSE]
    ELSE LET csi == lowerErrorSpec(SubSeq(specList, 1, Len(specList) - 1))
             spec == specList[Len(specList)]
         IN CASE spec = "IOSTAT" -> [csi EXCEPT !.ioStat = TRUE]
              [] spec = "IOMSG" -> [csi EXCEPT !.ioMsg = TRUE]
              [] spec = "END" -> [csi EXCEPT !.hasEnd = TRUE]
              [] spec = "EOR" -> [csi EXCEPT !.hasEor = TRUE]
              [] spec = "ERR" -> [csi EXCEPT !.hasErr = TRUE]
              [] OTHER -> csi

\* A variant that counts END= and EOR= as well.
hasErrorOrEndConditionSpec(csi) ==
    csi.ioStat \/ csi.hasErr \/ csi.hasEnd \/ csi.hasEor

hasErrorConditionSpec(csi) == csi.ioStat \/ csi.hasErr

\* A variant that forgets END= and EOR=.
hasStatusOrErrOnly(csi) == csi.ioStat \/ csi.hasErr

hasTransferConditionSpec(csi) ==
    hasErrorConditionSpec(csi) \/ csi.hasEnd \/ csi.hasEor

hasAnyConditionSpec(csi) == hasTransferConditionSpec(csi) \/ csi.ioMsg

\* ------------------------------------------------------------ item types
\* An item type: cat is "int" (signless INTEGER), "uint", "i1", "logical"
\* (fir::LogicalType), "real", "complex", "char" or "derived"; w is its bit
\* width (of one part for complex, of one character for char); rank 0 is a
\* scalar; dflt tells a character type of the default kind.
Ty(cat, w, rank, dflt) == [cat |-> cat, w |-> w, rank |-> rank, dflt |-> dflt]

INT32 == Ty("int", 32, 0, TRUE)

LOGICAL32 == Ty("logical", 32, 0, TRUE)

DefaultCharBits == 8    \* kindMap.getCharacterBitsize(defaultCharacterKind())

\* A variant that forgets the arrays of derived type.
isRecordType(type) == type.cat = "derived" /\ type.rank = 0

\* Is type a derived type or an array of derived type?
containsDerivedType(type) == type.cat = "derived"

getOutputFunc(type, isFormatted) ==
    IF containsDerivedType(type) THEN "OutputDerivedType"
    ELSE IF ~isFormatted THEN "OutputDescriptor"
    ELSE IF type.rank = 0 /\ type.cat \in {"int", "i1"} /\ type.w = 1
         THEN "OutputLogical"
    ELSE IF type.rank = 0 /\ type.cat = "int" /\ type.w = 8 THEN "OutputInteger8"
    ELSE IF type.rank = 0 /\ type.cat = "int" /\ type.w = 16 THEN "OutputInteger16"
    ELSE IF type.rank = 0 /\ type.cat = "int" /\ type.w = 32 THEN "OutputInteger32"
    ELSE IF type.rank = 0 /\ type.cat = "int" /\ type.w = 64 THEN "OutputInteger64"
    ELSE IF type.rank = 0 /\ type.cat = "int" /\ type.w = 128 THEN "OutputInteger128"
    ELSE IF type.rank = 0 /\ type.cat \in {"int", "i1"} THEN "llvm_unreachable"
    ELSE IF type.rank = 0 /\ type.cat = "real" /\ type.w = 32 THEN "OutputReal32"
    ELSE IF type.rank = 0 /\ type.cat = "real" /\ type.w = 64 THEN "OutputReal64"
    ELSE IF type.rank = 0 /\ type.cat = "complex" /\ type.w = 32 THEN "OutputComplex32"
    ELSE IF type.rank = 0 /\ type.cat = "complex" /\ type.w = 64 THEN "OutputComplex64"
    ELSE IF type.rank = 0 /\ type.cat = "logical" THEN "OutputLogical"
    ELSE IF type.rank = 0 /\ type.cat = "char" /\ DefaultCharBits = 8 /\ type.dflt
         THEN "OutputAscii"
    ELSE "OutputDescriptor"

\* A variant without the test for unsigned integers.
getInputFuncAnyInteger(type, isFormatted) ==
    IF containsDerivedType(type) THEN "InputDerivedType"
    ELSE IF ~isFormatted THEN "InputDescriptor"
    ELSE IF type.rank = 0 /\ type.cat \in {"int", "uint", "i1"}
         THEN IF type.w = 1 THEN "InputLogical" ELSE "InputInteger"
    ELSE IF type.rank = 0 /\ type.cat = "real" /\ type.w = 32 THEN "InputReal32"
    ELSE IF type.rank = 0 /\ type.cat = "real" /\ type.w = 64 THEN "InputReal64"
    ELSE IF type.rank = 0 /\ type.cat = "complex" /\ type.w = 32 THEN "InputComplex32"
    ELSE IF type.rank = 0 /\ type.cat = "complex" /\ type.w = 64 THEN "InputComplex64"
    ELSE IF type.rank = 0 /\ type.cat = "logical" THEN "InputLogical"
    ELSE IF type.rank = 0 /\ type.cat = "char" /\ DefaultCharBits = 8 /\ type.dflt
         THEN "InputAscii"
    ELSE "InputDescriptor"

\* Get the input function to call for a value of the given type.
getInputFunc(type, isFormatted) ==
    IF containsDerivedType(type) THEN "InputDerivedType"
    ELSE IF ~isFormatted THEN "InputDescriptor"
    ELSE IF type.rank = 0 /\ type.cat = "uint" THEN "InputDescriptor"
    ELSE IF type.rank = 0 /\ type.cat \in {"int", "i1"}
         THEN IF type.w = 1 THEN "InputLogical" ELSE "InputInteger"
    ELSE IF type.rank = 0 /\ type.cat = "real" /\ type.w = 32 THEN "InputReal32"
    ELSE IF type.rank = 0 /\ type.cat = "real" /\ type.w = 64 THEN "InputReal64"
    ELSE IF type.rank = 0 /\ type.cat = "complex" /\ type.w = 32 THEN "InputComplex32"
    ELSE IF type.rank = 0 /\ type.cat = "complex" /\ type.w = 64 THEN "InputComplex64"
    ELSE IF type.rank = 0 /\ type.cat = "logical" THEN "InputLogical"
    ELSE IF type.rank = 0 /\ type.cat = "char" /\ DefaultCharBits = 8 /\ type.dflt
         THEN "InputAscii"
    ELSE "InputDescriptor"

\* the entry points whose second parameter is a descriptor (fir::BoxType)
BoxedFuncs == {"OutputDescriptor", "OutputDerivedType", "InputDescriptor",
               "InputDerivedType"}

\* ------------------------------------------------------------ the builder
\* blocks[b] is the list of operations of block b (block 1 is the block the
\* statement is lowered into); parent[b] is the <<block, index>> of the
\* operation that owns block b; ip is the block new operations are appended to
\* (every insertion point the lowering sets is the end of a block); nv is the
\* last SSA value id handed out; ok is the success flag threaded through the
\* statement; bigUnitIfOp is csi.bigUnitIfOp as a <<block, index>>, <<>> if
\* unset; ret is the value the statement generator returns; globals is the
\* set of the names of the globals of the module and defs the definitions
\* of globals in the order they were made; init holds the initial values
\* of the defined IO tables; scope is the converter's
\* current scope, with the defined I/O procedures visible in it; val is the
\* value returned by the last descriptor generator.
NoScope == [name |-> "s0", procs |-> {}]

NewBuilder ==
    [blocks |-> << <<>> >>, parent |-> << <<0, 0>> >>, ip |-> 1, nv |-> 0,
     ok |-> NULL, bigUnitIfOp |-> <<>>, ret |-> NULL, globals |-> {},
     defs |-> <<>>, init |-> {}, scope |-> NoScope, val |-> NULL]

Emit(L, op) == [L EXCEPT !.blocks[L.ip] = Append(@, op)]

\* an operation with one result: the result gets the next value id
EmitV(L, op) ==
    [L EXCEPT !.blocks[L.ip] = Append(@, [r |-> L.nv + 1] @@ op),
              !.nv = @ + 1]

\* fir::CallOp::create of a runtime entry point. cls is the phase of the call,
\* cookie the value id of the cookie argument, item the specifier or item the
\* call is for, flags its constant arguments.
CallOp(fn, cls, cookie, item, flags) ==
    [k |-> "call", fn |-> fn, cls |-> cls, cookie |-> cookie, item |-> item,
     flags |-> flags]

\* a new empty block owned by the operation about to be appended to L.ip
AddBlock(L) ==
    [L EXCEPT !.blocks = Append(@, <<>>),
              !.parent = Append(@, <<L.ip, Len(L.blocks[L.ip]) + 1>>)]

ParentOp(L, b) == L.blocks[L.parent[b][1]][L.parent[b][2]]

\* A variant that opens guards in loop bodies only.
makeNextConditionalInLoop(L, checkResult, inLoop) ==
    IF ~checkResult \/ L.ok = NULL \/ ~inLoop
    THEN L
    ELSE LET n == Len(L.blocks)
             ifOp == [k |-> "if", cond |-> L.ok, thenB |-> n + 1,
                      elseB |-> n + 2, r |-> L.nv + 1]
         IN [Emit(AddBlock(AddBlock(L)), ifOp)
                EXCEPT !.ip = n + 1, !.nv = @ + 1]

\* Make the next call in the IO statement conditional on runtime result ok.
makeNextConditionalAlways(L, checkResult, inLoop) ==
    IF L.ok = NULL
    THEN L
    ELSE LET n == Len(L.blocks)
             L1 == IF inLoop THEN AddBlock(AddBlock(L)) ELSE AddBlock(L)
             ifOp == [k |-> "if", cond |-> L.ok, thenB |-> n + 1,
                      elseB |-> IF inLoop THEN n + 2 ELSE 0,
                      r |-> IF inLoop THEN L.nv + 1 ELSE NULL]
         IN [Emit(L1, ifOp) EXCEPT !.ip = n + 1,
                                   !.nv = IF inLoop THEN @ + 1 ELSE @]

makeNextConditionalOn(L, checkResult, inLoop) ==
    IF ~checkResult \/ L.ok = NULL
    THEN L
    ELSE LET n == Len(L.blocks)
             L1 == IF inLoop THEN AddBlock(AddBlock(L)) ELSE AddBlock(L)
             ifOp == [k |-> "if", cond |-> L.ok, thenB |-> n + 1,
                      elseB |-> IF inLoop THEN n + 2 ELSE 0,
                      r |-> IF inLoop THEN L.nv + 1 ELSE NULL]
         IN [Emit(L1, ifOp) EXCEPT !.ip = n + 1,
                                   !.nv = IF inLoop THEN @ + 1 ELSE @]

\* ------------------------------------------------- specifiers (threadSpecs)
\* genIOOption: a preprocessed specifier emits nothing and yields a null
\* value; every other one emits its setter call and yields the call's result.
\* A variant in which a preprocessed specifier hands the flag on.
genIOOptionKeepFlag(L, cookie, spec) ==
    IF spec \in PreprocessedSpecs
    THEN L
    ELSE LET L1 == EmitV(L, CallOp(SetterFunc(spec), "spec", cookie, spec, <<>>))
         IN [L1 EXCEPT !.ok = L1.nv]

genIOOption(L, cookie, spec) ==
    IF spec \in PreprocessedSpecs
    THEN [L EXCEPT !.ok = NULL]
    ELSE LET L1 == EmitV(L, CallOp(SetterFunc(spec), "spec", cookie, spec, <<>>))
         IN [L1 EXCEPT !.ok = L1.nv]

\* For each specifier, build the appropriate call, threading the cookie.
RECURSIVE threadSpecs(_, _, _, _)
threadSpecs(L, cookie, specList, checkResult) ==
    IF specList = <<>>
    THEN L
    ELSE LET L1 == makeNextConditionalOn(L, checkResult, FALSE)
             spec == Head(specList)
             L2 == IF spec \in DeferredSpecs
                   THEN L1
                   ELSE genIOOption(L1, cookie, spec)
         IN threadSpecs(L2, cookie, Tail(specList), checkResult)

\* genInquireSpec: IOSTAT, IOMSG and the specifiers that are no variable yield
\* a null value; a LOGICAL result is extended by boolRefToLogical.
genInquireSpec(L, cookie, spec) ==
    IF spec \notin InquireSpecs
    THEN [L EXCEPT !.ok = NULL]
    ELSE LET L1 == EmitV(L, CallOp(InquireFunc(spec), "spec", cookie, spec, <<>>))
             L2 == IF spec = "EXIST"
                   THEN Emit(L1, [k |-> "extend", item |-> spec])
                   ELSE L1
         IN [L2 EXCEPT !.ok = L1.nv]

RECURSIVE threadInquire(_, _, _, _)
threadInquire(L, cookie, ispecs, checkResult) ==
    IF ispecs = <<>>
    THEN L
    ELSE LET L1 == makeNextConditionalOn(L, checkResult, FALSE)
         IN threadInquire(genInquireSpec(L1, cookie, Head(ispecs)), cookie,
                          Tail(ispecs), checkResult)

\* A variant that enables the handlers for IOSTAT=, ERR=, END=, EOR= only.
genConditionHandlerCallNoMsg(L, cookie, csi) ==
    IF ~hasTransferConditionSpec(csi)
    THEN L
    ELSE Emit(L, [r |-> NULL] @@
                 CallOp("EnableHandlers", "enable", cookie, "",
                        <<B2I(csi.ioStat), B2I(csi.hasErr), B2I(csi.hasEnd),
                          B2I(csi.hasEor), B2I(csi.ioMsg)>>))

\* EnableHandlers(cookie, hasIoStat, hasErr, hasEnd, hasEor, hasIoMsg)
genConditionHandlerCall(L, cookie, csi) ==
    IF ~hasAnyConditionSpec(csi)
    THEN L
    ELSE Emit(L, [r |-> NULL] @@
                 CallOp("EnableHandlers", "enable", cookie, "",
                        <<B2I(csi.ioStat), B2I(csi.hasErr), B2I(csi.hasEnd),
                          B2I(csi.hasEor), B2I(csi.ioMsg)>>))

\* A variant that makes the query only if the flag is true.
genIOGetVarGuarded(L, fn, cookie, var) ==
    LET L1 == EmitV(makeNextConditionalOn(L, TRUE, FALSE),
                    CallOp(fn, "query", cookie, var, <<>>))
    IN [Emit(L1, [k |-> "store", val |-> L1.nv, var |-> var])
           EXCEPT !.ip = L.ip]

\* Generates "VAR = IoRuntimeKey(cookie)".
genIOGetVar(L, fn, cookie, var) ==
    LET L1 == EmitV(L, CallOp(fn, "query", cookie, var, <<>>))
    IN Emit(L1, [k |-> "store", val |-> L1.nv, var |-> var])

\* A variant that asks for the message after the end call.
genEndIOMsgLast(L, cookie, csi) ==
    LET L1 == EmitV(L, CallOp("EndIoStatement", "end", cookie, "", <<>>))
        L2 == IF csi.ioMsg
              THEN Emit(L1, [r |-> NULL] @@
                            CallOp("GetIoMsg", "iomsg", cookie, "IOMSG", <<>>))
              ELSE L1
        L3 == IF csi.ioStat
              THEN Emit(L2, [k |-> "store", val |-> L1.nv, var |-> "IOSTAT"])
              ELSE L2
    IN [L3 EXCEPT !.ret = IF hasTransferConditionSpec(csi) THEN L1.nv
                          ELSE NULL]

\* A variant that stores the result of the end call also when the statement
\* was lowered into the region of the unit range check.
genEndIOStoreCall(L, cookie, csi) ==
    LET L1 == IF csi.ioMsg
              THEN Emit(L, [r |-> NULL] @@
                           CallOp("GetIoMsg", "iomsg", cookie, "IOMSG", <<>>))
              ELSE L
        L2 == EmitV(L1, CallOp("EndIoStatement", "end", cookie, "", <<>>))
        big == L.bigUnitIfOp
        L3 == IF big # <<>>
              THEN [Emit(L2, [k |-> "result", vals |-> <<L2.nv>>])
                        EXCEPT !.ip = big[1]]
              ELSE L2
        L4 == IF csi.ioStat
              THEN Emit(L3, [k |-> "store", val |-> L2.nv, var |-> "IOSTAT"])
              ELSE L3
    IN [L4 EXCEPT !.ret = IF hasTransferConditionSpec(csi) THEN L2.nv ELSE NULL]

\* A variant that asks for the message only when IOSTAT= or ERR= is there.
genEndIOMsgOnError(L, cookie, csi) ==
    LET L1 == IF csi.ioMsg /\ hasErrorConditionSpec(csi)
              THEN Emit(L, [r |-> NULL] @@
                           CallOp("GetIoMsg", "iomsg", cookie, "IOMSG", <<>>))
              ELSE L
        L2 == EmitV(L1, CallOp("EndIoStatement", "end", cookie, "", <<>>))
        big == L.bigUnitIfOp
        L3 == IF big # <<>>
              THEN [Emit(L2, [k |-> "result", vals |-> <<L2.nv>>])
                        EXCEPT !.ip = big[1]]
              ELSE L2
        iostat == IF big # <<>> THEN L.blocks[big[1]][big[2]].r ELSE L2.nv
        L4 == IF csi.ioStat
              THEN Emit(L3, [k |-> "store", val |-> iostat, var |-> "IOSTAT"])
              ELSE L3
    IN [L4 EXCEPT !.ret = IF hasTransferConditionSpec(csi) THEN iostat ELSE NULL]

\* --------------------------------------------------------- end of statement
\* Generate calls to end an IO statement. Return the IOSTAT value, if any.
\* A variant that hands the status back with IOMSG= as well.
genEndIOReturnOnMsg(L, cookie, csi) ==
    LET L1 == IF csi.ioMsg
              THEN Emit(L, [r |-> NULL] @@
                           CallOp("GetIoMsg", "iomsg", cookie, "IOMSG", <<>>))
              ELSE L
        L2 == EmitV(L1, CallOp("EndIoStatement", "end", cookie, "", <<>>))
        big == L.bigUnitIfOp
        L3 == IF big # <<>>
              THEN [Emit(L2, [k |-> "result", vals |-> <<L2.nv>>])
                        EXCEPT !.ip = big[1]]
              ELSE L2
        iostat == IF big # <<>> THEN L.blocks[big[1]][big[2]].r ELSE L2.nv
        L4 == IF csi.ioStat
              THEN Emit(L3, [k |-> "store", val |-> iostat, var |-> "IOSTAT"])
              ELSE L3
    IN [L4 EXCEPT !.ret = IF hasAnyConditionSpec(csi) THEN iostat ELSE NULL]

\* A variant that leaves the guard of an oversized unit open.
genEndIOUnitGuardOpen(L, cookie, csi) ==
    LET L1 == IF csi.ioMsg
              THEN Emit(L, [r |-> NULL] @@
                           CallOp("GetIoMsg", "iomsg", cookie, "IOMSG", <<>>))
              ELSE L
        L2 == EmitV(L1, CallOp("EndIoStatement", "end", cookie, "", <<>>))
        L4 == IF csi.ioStat
              THEN Emit(L2, [k |-> "store", val |-> L2.nv, var |-> "IOSTAT"])
              ELSE L2
    IN [L4 EXCEPT !.ret = IF hasTransferConditionSpec(csi) THEN L2.nv ELSE NULL]

genEndIO(L, cookie, csi) ==
    LET L1 == IF csi.ioMsg
              THEN Emit(L, [r |-> NULL] @@
                           CallOp("GetIoMsg", "iomsg", cookie, "IOMSG", <<>>))
              ELSE L
        L2 == EmitV(L1, CallOp("EndIoStatement", "end", cookie, "", <<>>))
        big == L.bigUnitIfOp
        L3 == IF big # <<>>
              THEN [Emit(L2, [k |-> "result", vals |-> <<L2.nv>>])
                        EXCEPT !.ip = big[1]]
              ELSE L2
        iostat == IF big # <<>> THEN L.blocks[big[1]][big[2]].r ELSE L2.nv
        L4 == IF csi.ioStat
              THEN Emit(L3, [k |-> "store", val |-> iostat, var |-> "IOSTAT"])
              ELSE L3
    IN [L4 EXCEPT !.ret = IF hasTransferConditionSpec(csi) THEN iostat ELSE NULL]

\* --------------------------------------------------------------- the unit
RuntimeUnitWidth == 32    \* the runtime takes the unit number as an int

\* A variant that opens the fir.if on the status of the check whatever the
\* condition specifiers of the statement.
genIOUnitNumberRecovering(L, rawUnitWidth, csi) ==
    IF rawUnitWidth > RuntimeUnitWidth
    THEN LET check == IF rawUnitWidth <= 64
                      THEN "CheckUnitNumberInRange64"
                      ELSE "CheckUnitNumberInRange128"
             L1 == EmitV(L, CallOp(check, "check", NULL, "UNIT",
                                   <<B2I(hasErrorConditionSpec(csi))>>))
             L2 == EmitV(L1, [k |-> "cmpeq0", a |-> L1.nv])
             n == Len(L2.blocks)
             L3 == AddBlock(AddBlock(L2))
             ifOp == [k |-> "if", cond |-> L2.nv, thenB |-> n + 1,
                      elseB |-> n + 2, r |-> L2.nv + 1]
             L4 == [Emit(L3, ifOp) EXCEPT !.nv = @ + 1, !.ip = n + 2]
             L5 == Emit(L4, [k |-> "result", vals |-> <<L1.nv>>])
         IN [L5 EXCEPT !.ip = n + 1,
                       !.bigUnitIfOp = <<L2.ip, Len(L2.blocks[L2.ip]) + 1>>]
    ELSE L

\* A variant whose fir.if takes the statement's region when the check fails.
genIOUnitNumberInverted(L, rawUnitWidth, csi) ==
    IF rawUnitWidth > RuntimeUnitWidth
    THEN LET check == IF rawUnitWidth <= 64
                      THEN "CheckUnitNumberInRange64"
                      ELSE "CheckUnitNumberInRange128"
             L1 == EmitV(L, CallOp(check, "check", NULL, "UNIT",
                                   <<B2I(hasErrorConditionSpec(csi))>>))
             L2 == EmitV(L1, [k |-> "cmpeq0", a |-> L1.nv])
             n == Len(L2.blocks)
             L3 == AddBlock(AddBlock(L2))
             ifOp == [k |-> "if", cond |-> L2.nv, thenB |-> n + 2,
                      elseB |-> n + 1, r |-> L2.nv + 1]
             L4 == [Emit(L3, ifOp) EXCEPT !.nv = @ + 1, !.ip = n + 2]
             L5 == Emit(L4, [k |-> "result", vals |-> <<L1.nv>>])
         IN IF hasErrorConditionSpec(csi)
            THEN [L5 EXCEPT !.ip = n + 1,
                            !.bigUnitIfOp = <<L2.ip, Len(L2.blocks[L2.ip]) + 1>>]
            ELSE L1
    ELSE L

\* genIOUnitNumber: the unit is range-checked before the begin call if its
\* type is wider than the runtime's; with IOSTAT= or ERR= the statement is
\* then lowered into the "in range" region of a fir.if whose other region
\* yields the status of the check.
genIOUnitNumber(L, rawUnitWidth, csi) ==
    IF rawUnitWidth > RuntimeUnitWidth
    THEN LET check == IF rawUnitWidth <= 64
                      THEN "CheckUnitNumberInRange64"
                      ELSE "CheckUnitNumberInRange128"
             L1 == EmitV(L, CallOp(check, "check", NULL, "UNIT",
                                   <<B2I(hasErrorConditionSpec(csi))>>))
             iostat == L1.nv
             L2 == EmitV(L1, [k |-> "cmpeq0", a |-> iostat])
             unitIsOK == L2.nv
             n == Len(L2.blocks)
             L3 == AddBlock(AddBlock(L2))
             ifOp == [k |-> "if", cond |-> unitIsOK, thenB |-> n + 1,
                      elseB |-> n + 2, r |-> L2.nv + 1]
             L4 == [Emit(L3, ifOp) EXCEPT !.nv = @ + 1, !.ip = n + 2]
             L5 == Emit(L4, [k |-> "result", vals |-> <<iostat>>])
         IN IF hasErrorConditionSpec(csi)
            THEN [L5 EXCEPT !.ip = n + 1,
                            !.bigUnitIfOp = <<L2.ip, Len(L2.blocks[L2.ip]) + 1>>]
            ELSE L1
    ELSE L

\* ------------------------------------------------- runtime descriptions
\* Get the current scope's non-type-bound defined IO procedures.
getDefinedIoProcMap(L) == L.scope.procs

\* Check a set of defined IO procedures for any procedure pointer or dummy
\* procedures.
hasLocalDefinedIoProc(definedIoProcMap) ==
    \E procSym \in definedIoProcMap : procSym \in {"pointer", "dummy"}

\* builder.createGlobal / createGlobalConstant
createGlobal(L, name) ==
    [L EXCEPT !.globals = @ \cup {name}, !.defs = Append(@, name)]

\* A variant that never finds a global in the module.
getNamedGlobalNone(L, name) == FALSE

\* builder.getNamedGlobal as a test
getNamedGlobal(L, name) == name \in L.globals

\* an operation with one result that a descriptor generator returns
EmitAddr(L, op) == [EmitV(L, op) EXCEPT !.val = L.nv + 1]

\* A variant that names every table after the scope.
tableNameOfScope(L, definedIoProcMap) ==
    L.scope.name \o ".nonTbpDefinedIoTable"

\* The name of the table of the scope, or of the default table if there are
\* no procedures.
tableName(L, definedIoProcMap) ==
    IF definedIoProcMap = {}
    THEN "default" \o ".nonTbpDefinedIoTable"
    ELSE L.scope.name \o ".nonTbpDefinedIoTable"

\* Retrieve or generate a runtime description of the non-type-bound defined
\* IO procedures in the current scope: local if any procedure is a dummy or
\* a procedure pointer, static otherwise, and a scope-independent default
\* table if there are no procedures.  inGlobal tells that the caller is
\* building the body of a global, where the operations go.
getNonTbpDefinedIoTableAddr(L, definedIoProcMap, inGlobal) ==
    LET tableMangleName == tableName(L, definedIoProcMap)
        listMangleName == tableMangleName \o ".list"
        table == [items |-> Cardinality(definedIoProcMap),
                  list |-> IF definedIoProcMap = {} THEN "null"
                           ELSE IF getNamedGlobal(L, listMangleName)
                                   \/ ~hasLocalDefinedIoProc(definedIoProcMap)
                           THEN listMangleName
                           ELSE "listAddr",
                  ignoreNonTbpEntries |-> TRUE]
        tableIsLocal == definedIoProcMap # {}
                            /\ hasLocalDefinedIoProc(definedIoProcMap)
        Op(M, op) == IF inGlobal THEN M ELSE Emit(M, op)
        OpV(M, op) == IF inGlobal THEN M ELSE EmitAddr(M, op)
    IN IF getNamedGlobal(L, tableMangleName)
       THEN LET L1 == OpV(L, [k |-> "addr_of", name |-> tableMangleName])
            IN OpV(L1, [k |-> "convert", a |-> L1.val])
       ELSE IF tableIsLocal
       THEN LET L1 == OpV(L, [k |-> "alloca", what |-> "procList"])
                L2 == Op(L1, [k |-> "store_desc", what |-> "procList"])
                L3 == OpV(L2, [k |-> "alloca", what |-> "procTable"])
                tableAddr == L3.val
                L4 == Op(L3, [k |-> "store_desc", what |-> "procTable",
                              table |-> table])
            IN OpV(L4, [k |-> "convert", a |-> tableAddr])
       ELSE LET L1 == IF definedIoProcMap # {}
                      THEN createGlobal(L, listMangleName)
                      ELSE L
                L2 == [createGlobal(L1, tableMangleName)
                          EXCEPT !.init = @ \cup {<<tableMangleName, table>>}]
                L3 == OpV(L2, [k |-> "addr_of", name |-> tableMangleName])
            IN OpV(L3, [k |-> "convert", a |-> L3.val])

globalNamelistDescriptorName(s) == s.name \o ".desc"

\* getNamelistGroup, the first loop: static descriptors for the global
\* variables that have none.
RECURSIVE defineGlobalDescriptors(_, _)
defineGlobalDescriptors(L, objects) ==
    IF objects = <<>>
    THEN L
    ELSE LET obj == Head(objects)
         IN defineGlobalDescriptors(
                IF /\ obj.isGlobal
                   /\ ~obj.isAllocatableOrPointer
                   /\ ~getNamedGlobal(L, globalNamelistDescriptorName(obj))
                THEN createGlobal(L, globalNamelistDescriptorName(obj))
                ELSE L,
                Tail(objects))

\* getNamelistGroup, listFunc: one entry of the item list for each variable,
\* with the address of its static descriptor, of its place in its common
\* block, or of a temporary descriptor.
RECURSIVE listFunc(_, _)
listFunc(L, objects) ==
    IF objects = <<>>
    THEN L
    ELSE LET obj == Head(objects)
             how == IF getNamedGlobal(L, globalNamelistDescriptorName(obj))
                    THEN "addr_of"
                    ELSE IF obj.inCommon /\ obj.isAllocatableOrPointer
                    THEN "coordinate_of"
                    ELSE "temporary"
         IN listFunc(Emit(L, [k |-> "member_desc", name |-> obj.name,
                              how |-> how]),
                     Tail(objects))

\* getNamelistGroup: the group is local if a defined IO procedure of the
\* scope is local or if a variable of the group is not global.
groupIsLocal(L, objects) ==
    \/ hasLocalDefinedIoProc(getDefinedIoProcMap(L))
    \/ \E n \in 1..Len(objects) : ~objects[n].isGlobal

\* Retrieve or generate a runtime description of NAMELIST group symbol.
\* Static descriptors are generated for global objects; local descriptors
\* for local objects.  If all descriptors and defined IO procedures are
\* static, the NamelistGroup is static.
getNamelistGroup(L, symbol) ==
    LET groupMangleName == symbol.name
        listMangleName == groupMangleName \o ".list"
        objects == symbol.objects
        definedIoProcMap == getDefinedIoProcMap(L)
    IN IF getNamedGlobal(L, groupMangleName)
       THEN EmitAddr(L, [k |-> "addr_of", name |-> groupMangleName])
       ELSE LET L1 == defineGlobalDescriptors(L, objects)
            IN IF groupIsLocal(L, objects)
               THEN LET L2 == EmitAddr(L1, [k |-> "alloca", what |-> "list"])
                        L3 == Emit(listFunc(L2, objects),
                                   [k |-> "store_desc", what |-> "list"])
                        L4 == EmitAddr(L3, [k |-> "alloca", what |-> "group"])
                        groupAddr == L4.val
                        L5 == getNonTbpDefinedIoTableAddr(L4, definedIoProcMap,
                                                          FALSE)
                        L6 == Emit(L5, [k |-> "store_desc", what |-> "group"])
                    IN [L6 EXCEPT !.val = groupAddr]
               ELSE LET L2 == createGlobal(L1, listMangleName)
                        L3 == getNonTbpDefinedIoTableAddr(L2, definedIoProcMap,
                                                          TRUE)
                        L4 == createGlobal(L3, groupMangleName)
                    IN EmitAddr(L4, [k |-> "addr_of",
                                     name |-> groupMangleName])

\* ----------------------------------------------------------- item transfer
isCharacterScalar(type) == type.cat = "char" /\ type.rank = 0

\* A variant that passes a complex value as one operand.
outputFuncArgsWhole(outputFunc, itemTy) ==
    IF outputFunc \in BoxedFuncs
    THEN <<"box">> \o (IF containsDerivedType(itemTy)
                       THEN <<"definedIoTable">> ELSE <<>>)
    ELSE IF isCharacterScalar(itemTy) THEN <<"address", "length">>
    ELSE <<"value">>

\* genOutputItemList: the arguments of the call after the cookie, by role:
\* a descriptor (and the table of defined I/O procedures for a derived
\* type), the address and length of a character scalar, the two parts of a
\* complex value, or the value converted to the type of the parameter.
outputFuncArgs(outputFunc, itemTy) ==
    IF outputFunc \in BoxedFuncs
    THEN <<"box">> \o (IF containsDerivedType(itemTy)
                       THEN <<"definedIoTable">> ELSE <<>>)
    ELSE IF isCharacterScalar(itemTy) THEN <<"address", "length">>
    ELSE IF itemTy.cat = "complex" THEN <<"realPart", "imagPart">>
    ELSE <<"value">>

\* createIoRuntimeCallForItem: the arguments of the call after the cookie:
\* a descriptor (and the table), or the address of the item, followed by the
\* length of a character scalar or the byte size of an integer.
createIoRuntimeCallForItem(inputFunc, itemTy) ==
    IF inputFunc \in BoxedFuncs
    THEN <<"box">> \o (IF containsDerivedType(itemTy)
                       THEN <<"definedIoTable">> ELSE <<>>)
    ELSE <<"address">> \o
         (IF isCharacterScalar(itemTy) THEN <<"length">>
          ELSE IF itemTy.cat \in {"int", "uint", "i1"} THEN <<"kind">>
          ELSE <<>>)

\* Interpret the lowest byte of a LOGICAL and store that value into the full
\* storage of the LOGICAL (after a call that took the item by address).
boolRefToLogical(L, inputFunc, item) ==
    IF inputFunc \notin BoxedFuncs /\ item.ty.cat = "logical"
    THEN Emit(L, [k |-> "extend", item |-> item.name])
    ELSE L

\* A variant that passes an output item the way an input item is passed.
genItemByAddress(L, cookie, item, isInput, isFormatted, checkResult, inLoop) ==
    LET L1 == makeNextConditionalOn(L, checkResult, inLoop)
        fn == IF isInput
              THEN getInputFunc(item.ty, isFormatted)
              ELSE getOutputFunc(item.ty, isFormatted)
        L2 == EmitV(L1, CallOp(fn, "item", cookie, item.name,
                               createIoRuntimeCallForItem(fn, item.ty)))
        L3 == IF isInput /\ fn \notin BoxedFuncs /\ item.ty.cat = "logical"
              THEN Emit(L2, [k |-> "extend", item |-> item.name])
              ELSE L2
    IN [L3 EXCEPT !.ok = L2.nv]

\* One scalar item of genOutputItemList / genInputItemList: the guard, the
\* call, and for a LOGICAL read by address the re-extension of its low byte.
genItem(L, cookie, item, isInput, isFormatted, checkResult, inLoop) ==
    LET L1 == makeNextConditionalOn(L, checkResult, inLoop)
        fn == IF isInput
              THEN getInputFunc(item.ty, isFormatted)
              ELSE getOutputFunc(item.ty, isFormatted)
        args == IF isInput
                THEN createIoRuntimeCallForItem(fn, item.ty)
                ELSE outputFuncArgs(fn, item.ty)
        L2 == EmitV(L1, CallOp(fn, "item", cookie, item.name, args))
        L3 == IF isInput /\ fn \notin BoxedFuncs /\ item.ty.cat = "logical"
              THEN Emit(L2, [k |-> "extend", item |-> item.name])
              ELSE L2
    IN [L3 EXCEPT !.ok = L2.nv]

\* The control expressions of an io-implied-do that are variables: the
\* operand and the variable it names.
ControlVars(ioImpliedDo) ==
    IF "vars" \in DOMAIN ioImpliedDo THEN ioImpliedDo.vars ELSE <<>>

\* A variant that evaluates a variable of the control again after the first
\* evaluation.
genControlValueTwice(L, ioImpliedDo, operand) ==
    IF operand \in DOMAIN ControlVars(ioImpliedDo)
    THEN EmitV(EmitV(L, [k |-> "load", var |-> ControlVars(ioImpliedDo)[operand],
                         operand |-> operand]),
               [k |-> "load", var |-> ControlVars(ioImpliedDo)[operand],
                operand |-> operand])
    ELSE EmitV(L, [k |-> "const", val |-> ioImpliedDo[operand]])

\* genControlValue: the value of a control expression, converted to index.
\* A literal is a constant, a variable is read where the expression is
\* lowered.
genControlValue(L, ioImpliedDo, operand) ==
    IF operand \in DOMAIN ControlVars(ioImpliedDo)
    THEN EmitV(L, [k |-> "load", var |-> ControlVars(ioImpliedDo)[operand],
                   operand |-> operand])
    ELSE EmitV(L, [k |-> "const", val |-> ioImpliedDo[operand]])

\* The step of the control: its value if there is one, the index constant 1
\* otherwise.
genStepValue(L, ioImpliedDo) ==
    IF "step" \in DOMAIN ioImpliedDo \cup DOMAIN ControlVars(ioImpliedDo)
    THEN genControlValue(L, ioImpliedDo, "step")
    ELSE EmitV(L, [k |-> "const", val |-> 1])

\* The loop bounds and the step, evaluated once before the loop; they are
\* the three values defined last when the loop operation is created.
genControlValues(L, ioImpliedDo) ==
    genStepValue(
        genControlValue(genControlValue(L, ioImpliedDo, "lower"), ioImpliedDo,
                        "upper"),
        ioImpliedDo)

\* No IO call result checks - the loop is a fir.do_loop op, whose body
\* begins with the store of the induction value to the loop variable.
beginDoLoop(L, var) ==
    LET body == Len(L.blocks) + 1
        doLoopOp == [k |-> "do_loop", lb |-> L.nv - 2, ub |-> L.nv - 1,
                     step |-> L.nv, body |-> body, iv |-> L.nv + 1,
                     r |-> L.nv + 2]
    IN Emit([Emit(AddBlock(L), doLoopOp) EXCEPT !.nv = @ + 2, !.ip = body],
            [k |-> "store", val |-> L.nv + 1, var |-> var])

\* The terminator of the fir.do_loop body: the next induction value.
doLoopYield(L, iv, stepValue) ==
    LET L1 == EmitV(L, [k |-> "addi", a |-> iv, b |-> stepValue])
    IN Emit(L1, [k |-> "result", vals |-> <<L1.nv>>])

\* A variant that stores the induction value of the last iteration.
storeLastValue(L, loopOp, var) ==
    Emit([L EXCEPT !.ip = L.parent[loopOp.body][1]],
         [k |-> "store", val |-> loopOp.iv, var |-> var])

\* The loop control variable may be used after the loop.
storeFinalValue(L, loopOp, var) ==
    Emit([L EXCEPT !.ip = L.parent[loopOp.body][1]],
         [k |-> "store", val |-> loopOp.r, var |-> var])

endDoLoop(L, var) ==
    storeFinalValue(doLoopYield(L, ParentOp(L, L.ip).iv,
                                ParentOp(L, L.ip).step),
                    ParentOp(L, L.ip), var)

\* Check IO call results - the loop is a fir.iterate_while op, whose body
\* begins with the store of the induction value to the loop variable; the
\* flag is then the iterate variable of the loop.
beginIterWhile(L, var) ==
    LET Lt == EmitV(L, [k |-> "const", val |-> 1])
        L2 == IF L.ok = NULL THEN [Lt EXCEPT !.ok = Lt.nv] ELSE L
        body == Len(L2.blocks) + 1
        iterWhileOp == [k |-> "iterate_while", lb |-> L.nv - 2,
                        ub |-> L.nv - 1, step |-> L.nv, init |-> L2.ok,
                        body |-> body, iv |-> L2.nv + 1, it |-> L2.nv + 2,
                        r |-> L2.nv + 3, r1 |-> L2.nv + 4]
        L3 == [Emit(AddBlock(L2), iterWhileOp)
                  EXCEPT !.nv = @ + 4, !.ip = body, !.ok = L2.nv + 2]
        L4 == Emit(L3, [k |-> "store", val |-> L2.nv + 1, var |-> var])
    IN EmitV(L4, [k |-> "const", val |-> 0])

\* The false constant of a fir.iterate_while body follows the store that
\* begins the body.
falseValueOf(L, body) == L.blocks[body][2].r

RECURSIVE LoopBodyOf(_, _)
\* The loop body that encloses block b: the first block, going outwards,
\* that is not a region of a fir.if.
LoopBodyOf(L, b) ==
    IF ParentOp(L, b).k # "if" THEN b ELSE LoopBodyOf(L, L.parent[b][1])

RECURSIVE unwindIfOpsFalse(_, _, _)
\* A variant whose success path yields the false constant too.
unwindIfOpsFalse(L, b, falseValue) ==
    IF ParentOp(L, b).k # "if"
    THEN [L EXCEPT !.ip = b]
    ELSE unwindIfOpsFalse(
             [L EXCEPT
                !.blocks[ParentOp(L, b).thenB] =
                    Append(@, [k |-> "result", vals |-> <<falseValue>>]),
                !.blocks[ParentOp(L, b).elseB] =
                    Append(@, [k |-> "result", vals |-> <<falseValue>>])],
             L.parent[b][1], falseValue)

RECURSIVE unwindIfOpsCallsOnly(_, _, _)
\* A variant that has no result to yield for a region that does not end
\* with a call or a fir.if, and yields the false constant.
unwindIfOpsCallsOnly(L, b, falseValue) ==
    IF ParentOp(L, b).k # "if"
    THEN [L EXCEPT !.ip = b]
    ELSE LET ifOp == ParentOp(L, b)
             lastOp == Last(L.blocks[ifOp.thenB])
             res == IF lastOp.k \in {"call", "if"} THEN lastOp.r
                                                   ELSE falseValue
         IN unwindIfOpsCallsOnly(
                [L EXCEPT
                   !.blocks[ifOp.thenB] =
                       Append(@, [k |-> "result", vals |-> <<res>>]),
                   !.blocks[ifOp.elseB] =
                       Append(@, [k |-> "result", vals |-> <<falseValue>>])],
                L.parent[b][1], falseValue)

RECURSIVE unwindIfOps(_, _, _)
\* Unwind nested IO call scopes, filling in true and false ResultOp's.
unwindIfOps(L, b, falseValue) ==
    IF ParentOp(L, b).k # "if"
    THEN [L EXCEPT !.ip = b]
    ELSE LET ifOp == ParentOp(L, b)
             lastOp == Last(L.blocks[ifOp.thenB])
             res == IF lastOp.k \in {"call", "if"} THEN lastOp.r ELSE L.ok
         IN unwindIfOps(
                [L EXCEPT
                   !.blocks[ifOp.thenB] =
                       Append(@, [k |-> "result", vals |-> <<res>>]),
                   !.blocks[ifOp.elseB] =
                       Append(@, [k |-> "result", vals |-> <<falseValue>>])],
                L.parent[b][1], falseValue)

\* The unwinding starts at the insertion point; the insertion point is then
\* the end of the loop body.
unwindScopes(L) ==
    unwindIfOps(L, L.ip, falseValueOf(L, LoopBodyOf(L, L.ip)))

\* A variant that always advances the induction value.
iterWhileAdvance(L, iv, stepValue, iterateResult) ==
    LET L1 == EmitV(L, [k |-> "addi", a |-> iv, b |-> stepValue])
    IN Emit(L1, [k |-> "result", vals |-> <<L1.nv, iterateResult>>])

\* The terminator of the fir.iterate_while body: the induction value advances
\* only if the body ended with a true flag.
iterWhileYield(L, iv, stepValue, iterateResult) ==
    LET L1 == EmitV(L, [k |-> "addi", a |-> iv, b |-> stepValue])
        L2 == EmitV(L1, [k |-> "select", c |-> iterateResult, a |-> L1.nv,
                         b |-> iv])
    IN Emit(L2, [k |-> "result", vals |-> <<L2.nv, iterateResult>>])

\* A variant after which the flag is the one the loop was entered with.
endIterWhileEntryFlag(L, var) ==
    LET iterWhileOp == ParentOp(L, L.ip)
        yielded == iterWhileYield(L, iterWhileOp.iv, iterWhileOp.step,
                                  Last(L.blocks[L.ip]).r)
    IN storeFinalValue([yielded EXCEPT !.ok = iterWhileOp.init], iterWhileOp,
                       var)

\* The end of the fir.iterate_while: the terminator of the body, then, after
\* the loop, its second result is the flag and its first result is stored
\* to the loop variable.
endIterWhile(L, var) ==
    LET iterWhileOp == ParentOp(L, L.ip)
        yielded == iterWhileYield(L, iterWhileOp.iv, iterWhileOp.step,
                                  Last(L.blocks[L.ip]).r)
    IN storeFinalValue([yielded EXCEPT !.ok = iterWhileOp.r1], iterWhileOp,
                       var)

RECURSIVE genItemList(_, _, _, _, _, _, _)
RECURSIVE genIoLoop(_, _, _, _, _, _, _)

\* vectorSubscriptBox.loopOverElements: a loop over the elements the vector
\* subscript selects, whose body is what the generator emits for one element.
loopOverElements(L, extent) ==
    LET L1 == EmitV(L, [k |-> "const", val |-> extent])
        body == Len(L1.blocks) + 1
        loopOp == [k |-> "elements_do", n |-> L1.nv, body |-> body,
                   iv |-> L1.nv + 1, r |-> NULL]
    IN [Emit(AddBlock(L1), loopOp) EXCEPT !.nv = @ + 1, !.ip = body]

\* vectorSubscriptBox.loopOverElementsWhile: the same loop, carrying the
\* flag: it goes on while the generator's value is true.
loopOverElementsWhile(L, extent) ==
    LET L1 == EmitV(L, [k |-> "const", val |-> extent])
        body == Len(L1.blocks) + 1
        loopOp == [k |-> "elements_while", n |-> L1.nv, init |-> L.ok,
                   body |-> body, iv |-> L1.nv + 1, r |-> L1.nv + 2]
    IN [Emit(AddBlock(L1), loopOp) EXCEPT !.nv = @ + 2, !.ip = body]

\* A variant that never ends the element loop early.
endElementsTrue(L, value) ==
    LET loopOp == ParentOp(L, L.ip)
        L1 == EmitV(L, [k |-> "const", val |-> 1])
        L2 == Emit(L1, [k |-> "result", vals |-> <<L1.nv>>])
    IN [L2 EXCEPT !.ip = L.parent[loopOp.body][1]]

\* The end of the body of an element loop: the generator's value is yielded.
endElements(L, value) ==
    LET loopOp == ParentOp(L, L.ip)
        L1 == Emit(L, [k |-> "result",
                       vals |-> IF value = NULL THEN <<>> ELSE <<value>>])
    IN [L1 EXCEPT !.ip = L.parent[loopOp.body][1]]

\* A variant that leaves the flag as it was before the element loop.
keepElementsFlag(L, loopOp, checkResult) == L

\* With checking, the result of the element loop is the flag from then on.
setElementsFlag(L, loopOp, checkResult) ==
    IF checkResult THEN [L EXCEPT !.ok = loopOp.r] ELSE L

\* The flag is created true if there is none yet.
createBoolIfNone(L) ==
    IF L.ok = NULL THEN [EmitV(L, [k |-> "const", val |-> 1]) EXCEPT !.ok = L.nv + 1]
                   ELSE L

\* The element loop of a vector subscript is opened: with checking it
\* carries the flag.
beginElements(L, extent, checkResult) ==
    IF checkResult THEN loopOverElementsWhile(createBoolIfNone(L), extent)
                   ELSE loopOverElements(L, extent)

\* The body of the element loop: the call for the element, the re-extension
\* of a LOGICAL, and the call's result as the value of the body.
genElementCall(L, cookie, item, inputFunc, checkResult) ==
    setElementsFlag(
        endElements(
            boolRefToLogical(
                EmitV(L, [elem |-> ParentOp(L, L.ip).iv] @@
                         CallOp(inputFunc, "item", cookie, item.name,
                                createIoRuntimeCallForItem(inputFunc, item.ty))),
                inputFunc, item),
            IF checkResult THEN L.nv + 1 ELSE NULL),
        ParentOp(L, L.ip), checkResult)

\* genInputItemList for a variable with a vector subscript: one call for
\* each element; with checking, the loop's result is the flag.
genVectorSubscriptItem(L, cookie, item, isFormatted, checkResult, inLoop) ==
    genElementCall(
        beginElements(makeNextConditionalOn(L, checkResult, inLoop), item.n,
                      checkResult),
        cookie, item, getInputFunc(item.ty, isFormatted), checkResult)

\* Generate a sequence of data transfer calls (genOutputItemList for output,
\* genInputItemList for input).
genItemList(L, cookie, items, isInput, isFormatted, checkResult, inLoop) ==
    IF items = <<>>
    THEN L
    ELSE genItemList(IF Head(items).k = "do"
                     THEN genIoLoop(L, cookie, Head(items), isInput,
                                    isFormatted, checkResult, inLoop)
                     ELSE IF Head(items).k = "vector"
                     THEN genVectorSubscriptItem(L, cookie, Head(items),
                                                 isFormatted, checkResult,
                                                 inLoop)
                     ELSE genItem(L, cookie, Head(items), isInput,
                                  isFormatted, checkResult, inLoop),
                     cookie, Tail(items), isInput, isFormatted, checkResult,
                     inLoop)

\* Generate an io-implied-do loop.
\* A variant that evaluates the control expressions before the guard on the
\* flag is opened.
genIoLoopEarlyControl(L, cookie, ioImpliedDo, isInput, isFormatted, checkResult, inLoop) ==
    IF ~checkResult
    THEN endDoLoop(
             genItemList(
                 beginDoLoop(genControlValues(L, ioImpliedDo),
                             ioImpliedDo.var),
                 cookie, ioImpliedDo.items, isInput, isFormatted, checkResult,
                 TRUE),
             ioImpliedDo.var)
    ELSE endIterWhile(
             unwindScopes(
                 genItemList(
                     beginIterWhile(
                         LET L1 == genControlValues(L, ioImpliedDo)
                         IN [makeNextConditionalOn(L1, checkResult, FALSE)
                                EXCEPT !.nv = L1.nv],
                         ioImpliedDo.var),
                     cookie, ioImpliedDo.items, isInput, isFormatted,
                     checkResult, TRUE)),
             ioImpliedDo.var)

genIoLoop(L, cookie, ioImpliedDo, isInput, isFormatted, checkResult, inLoop) ==
    IF ~checkResult
    THEN endDoLoop(
             genItemList(
                 beginDoLoop(
                     genControlValues(
                         makeNextConditionalOn(L, checkResult, inLoop),
                         ioImpliedDo),
                     ioImpliedDo.var),
                 cookie, ioImpliedDo.items, isInput, isFormatted, checkResult,
                 TRUE),
             ioImpliedDo.var)
    ELSE endIterWhile(
             unwindScopes(
                 genItemList(
                     beginIterWhile(
                         genControlValues(
                             makeNextConditionalOn(L, checkResult, inLoop),
                             ioImpliedDo),
                         ioImpliedDo.var),
                     cookie, ioImpliedDo.items, isInput, isFormatted,
                     checkResult, TRUE)),
             ioImpliedDo.var)

\* Generate a namelist IO call.
genNamelistIO(L, converter, cookie, fn, symbol, checkResult) ==
    LET L1 == makeNextConditionalOn(L, checkResult, FALSE)
        L2 == getNamelistGroup([L1 EXCEPT !.scope = converter.scope,
                                          !.globals = converter.globals],
                               symbol)
        groupAddr == L2.val
        L3 == EmitAddr(L2, [k |-> "convert", a |-> groupAddr])
        L4 == EmitV(L3, CallOp(fn, "item", cookie, "NML", <<"group">>))
    IN [L4 EXCEPT !.ok = L4.nv]

\* ------------------------------------------------------ statement lowering
\* A variant that leaves the insertion point where the threading ended.
keepInsertionPoint(L, insertPt) == L

restoreInsertionPoint(L, insertPt) == [L EXCEPT !.ip = insertPt]

\* The begin call of a statement; its result is the cookie.
genBeginCall(L, beginFunc) ==
    EmitV(L, CallOp(beginFunc, "begin", NULL, "", <<>>))

BasicBeginFunc(kind) ==
    CASE kind = "CLOSE" -> "BeginClose"
      [] kind = "BACKSPACE" -> "BeginBackspace"
      [] kind = "ENDFILE" -> "BeginEndfile"
      [] kind = "FLUSH" -> "BeginFlush"
      [] kind = "REWIND" -> "BeginRewind"

genBasicIOStmt(st) ==
    LET csi == lowerErrorSpec(st.specs)
        L1 == genIOUnitNumber(NewBuilder, st.unitWidth, csi)
        L2 == genBeginCall(L1, BasicBeginFunc(st.kind))
        cookie == L2.nv
        L3 == genConditionHandlerCall(L2, cookie, csi)
        insertPt == L3.ip
        L4 == threadSpecs(L3, cookie, st.specs, hasErrorConditionSpec(csi))
    IN genEndIO(restoreInsertionPoint(L4, insertPt), cookie, csi)

genNewunitSpec(L, cookie) ==
    EmitV(L, CallOp("GetNewUnit", "query", cookie, "NEWUNIT", <<>>))

genOpenStatement(st) ==
    LET csi == lowerErrorSpec(st.specs)
        hasUnit == "UNIT" \in Range(st.specs)
        hasNewunitSpec == ~hasUnit /\ "NEWUNIT" \in Range(st.specs)
        L1 == IF hasUnit
              THEN genIOUnitNumber(NewBuilder, st.unitWidth, csi)
              ELSE NewBuilder
        L2 == genBeginCall(L1, IF hasUnit THEN "BeginOpenUnit"
                                          ELSE "BeginOpenNewUnit")
        cookie == L2.nv
        L3 == genConditionHandlerCall(L2, cookie, csi)
        insertPt == L3.ip
        L4 == threadSpecs(L3, cookie, st.specs, hasErrorConditionSpec(csi))
        L5 == IF hasNewunitSpec THEN genNewunitSpec(L4, cookie) ELSE L4
    IN genEndIO(restoreInsertionPoint(L5, insertPt), cookie, csi)

genWaitStatement(st) ==
    LET csi == lowerErrorSpec(st.specs)
        hasId == "IDEXPR" \in Range(st.specs)
        L1 == genIOUnitNumber(NewBuilder, st.unitWidth, csi)
        L2 == genBeginCall(L1, IF hasId THEN "BeginWait" ELSE "BeginWaitAll")
        cookie == L2.nv
        L3 == genConditionHandlerCall(L2, cookie, csi)
    IN genEndIO(L3, cookie, csi)

\* Get the begin data transfer IO function to call for the given values.
\* A variant that looks at the list form only when the transfer is formatted.
getBeginDataTransferFuncFormattedFirst(isInput, isFormatted, isListOrNml, isInternal, isInternalWithDesc) ==
    LET dir == IF isInput THEN "Input" ELSE "Output"
        form == IF isFormatted /\ isListOrNml THEN "List" ELSE "Formatted"
    IN IF isFormatted \/ isListOrNml
       THEN IF isInternal
            THEN IF isInternalWithDesc
                 THEN "BeginInternalArray" \o form \o dir
                 ELSE "BeginInternal" \o form \o dir
            ELSE "BeginExternal" \o form \o dir
       ELSE "BeginUnformatted" \o dir

getBeginDataTransferFunc(isInput, isFormatted, isListOrNml, isInternal, isInternalWithDesc) ==
    LET dir == IF isInput THEN "Input" ELSE "Output"
    IN IF isFormatted \/ isListOrNml
       THEN IF isInternal
            THEN IF isInternalWithDesc
                 THEN IF isListOrNml
                      THEN "BeginInternalArrayList" \o dir
                      ELSE "BeginInternalArrayFormatted" \o dir
                 ELSE IF isListOrNml
                      THEN "BeginInternalList" \o dir
                      ELSE "BeginInternalFormatted" \o dir
            ELSE IF isListOrNml
                 THEN "BeginExternalList" \o dir
                 ELSE "BeginExternalFormatted" \o dir
       ELSE "BeginUnformatted" \o dir

isDataTransferFormatted(st) == st.format \in {"star", "fmt", "assigned"}
isDataTransferList(st) == st.format = "star"
isDataTransferInternal(st) == st.io # "external"

\* A variant that asks for a descriptor for arrays only.
getVariableBufferArrayOnly(var) == var.rank > 0

\* If the variable is an array or of a KIND other than the default, then a
\* descriptor is required by the runtime (TRUE: the optional has a value).
getVariableBufferRequiredDescriptor(var) ==
    IF ~var.dflt THEN TRUE
    ELSE IF var.rank > 0 THEN TRUE
    ELSE FALSE

maybeGetInternalIODescriptor(st) ==
    IF st.io # "external"
    THEN getVariableBufferRequiredDescriptor(st.unitVar)
    ELSE FALSE

\* genIOUnit: the unit expression of the statement, or the constant of the
\* default unit if the unit is absent or an asterisk.
genIOUnit(iounitIsExpr, defaultUnitNumber) ==
    IF iounitIsExpr THEN "unit" ELSE defaultUnitNumber

\* A variant whose PRINT branch asks the statement for its unit.
genBeginDataTransferCallArgsUnit(hasIOCtrl, isFormatted, isListOrNml, isInternal, descRef, iounitIsExpr, defaultUnitNumber) ==
    LET formatArgs == IF ~isFormatted \/ isListOrNml
                      THEN <<>>
                      ELSE <<"format", "formatLength", "formatDescriptor">>
        ioArgs == IF hasIOCtrl /\ isInternal
                  THEN (IF descRef THEN <<"descriptor">>
                                   ELSE <<"buffer", "bufferLength">>)
                       \o formatArgs \o <<"scratchArea", "scratchLength">>
                  ELSE formatArgs \o <<genIOUnit(hasIOCtrl => iounitIsExpr,
                                                 defaultUnitNumber)>>
    IN ioArgs \o <<"sourceFile", "sourceLine">>

\* The arguments of the begin call of a data transfer, by their roles.
genBeginDataTransferCallArgs(hasIOCtrl, isFormatted, isListOrNml, isInternal, descRef, iounitIsExpr, defaultUnitNumber) ==
    LET formatArgs == IF ~isFormatted \/ isListOrNml
                      THEN <<>>
                      ELSE <<"format", "formatLength", "formatDescriptor">>
        ioArgs == IF hasIOCtrl
                  THEN IF isInternal
                       THEN (IF descRef THEN <<"descriptor">>
                                        ELSE <<"buffer", "bufferLength">>)
                            \o formatArgs
                            \o <<"scratchArea", "scratchLength">>
                       ELSE \* external IO - maybe explicit format; unit
                            formatArgs
                            \o <<genIOUnit(iounitIsExpr, defaultUnitNumber)>>
                  ELSE \* PRINT - maybe explicit format; default unit
                       formatArgs \o <<defaultUnitNumber>>
    IN ioArgs \o <<"sourceFile", "sourceLine">>
isDataTransferNamelist(st) == st.format = "nml"

RECURSIVE genDeferredQueries(_, _, _)
\* SIZE= and ID= are queried after the transfer, in the order of the list.
genDeferredQueries(L, cookie, controls) ==
    IF controls = <<>>
    THEN L
    ELSE LET L1 == CASE Head(controls) = "SIZE" ->
                          genIOGetVar(L, "GetSize", cookie, "SIZE")
                     [] Head(controls) = "ID" ->
                          genIOGetVar(L, "GetAsynchronousId", cookie, "ID")
                     [] OTHER -> L
         IN genDeferredQueries(L1, cookie, Tail(controls))

\* ---------------------------------------------------------------- formats
\* The labelled statements of the program unit, as source text: two FORMAT
\* statements and a statement that is not a FORMAT.
LabelTable ==
    (10 :> [isFormat |-> TRUE, text |-> <<"F", "(", "I", ")">>])
    @@ (20 :> [isFormat |-> TRUE,
               text |-> <<"F", " ", "(", "(", "A", ")", ")", " ">>])
    @@ (30 :> [isFormat |-> FALSE, text |-> <<"C", "(", "1", ")">>])

\* converter.lookupLabel
lookupLabel(label) == LabelTable[label]

\* A variant that passes the whole statement.
lowerSourceTextWhole(text) == [ref |-> text, len |-> Len(text)]

\* Pass the body of the FORMAT statement in as if it were a CHARACTER
\* literal constant: the text from the first "(" to the last ")".
lowerSourceTextAsStringLit(text) ==
    LET find == CHOOSE n \in 1..Len(text) :
                    text[n] = "(" /\ \A m \in 1..(n - 1) : text[m] # "("
        dropped == SubSeq(text, find, Len(text))
        rfind == CHOOSE n \in 1..Len(dropped) :
                     /\ dropped[n] = ")"
                     /\ \A m \in (n + 1)..Len(dropped) : dropped[m] # ")"
        taken == SubSeq(dropped, 1, rfind)
    IN [ref |-> taken, len |-> Len(taken)]

RECURSIVE SortedLabels(_)
\* The labels of a label set in increasing order.
SortedLabels(labels) ==
    IF labels = {}
    THEN <<>>
    ELSE LET least == CHOOSE x \in labels : \A y \in labels : x <= y
         IN <<least>> \o SortedLabels(labels \ {least})

\* Lowers a format that is an assigned label variable as a select on the
\* labels assigned to the variable.  Each case hands the text and the length
\* of its FORMAT statement, or null and 0, to the block that follows; the
\* default case reports a fatal error.
lowerReferenceAsStringSelect(L, labels) ==
    LET indexList == SortedLabels(labels)
        arm(label) ==
            LET eval == lookupLabel(label)
                stringLit == lowerSourceTextAsStringLit(eval.text)
            IN IF eval.isFormat
               THEN [label |-> label, ref |-> stringLit.ref,
                     len |-> stringLit.len]
               ELSE [label |-> label, ref |-> <<>>, len |-> 0]
        selectOp == [k |-> "select_case", r |-> L.nv + 1,
                     cases |-> [n \in 1..Len(indexList) |-> arm(indexList[n])],
                     buff |-> L.nv + 2, len |-> L.nv + 3]
    IN [Emit(L, selectOp) EXCEPT !.nv = @ + 3]

\* genFormat for the formats that emit operations: the integer variable
\* that holds an assigned label.
genFormat(L, st) ==
    IF st.format = "assigned"
    THEN lowerReferenceAsStringSelect(L, st.labels)
    ELSE L

\* The operations genBeginDataTransferCallArgs emits for the unit of an
\* external transfer with a control list, after those of the format.
genBeginDataTransferUnit(L, st, hasIOCtrl) ==
    IF hasIOCtrl /\ ~isDataTransferInternal(st)
    THEN genIOUnitNumber(L, st.unitWidth, lowerErrorSpec(st.specs))
    ELSE L

\* genDataTransferStmt from the begin call on; L1 holds the operations of
\* the arguments of the begin call.
genDataTransferCalls(L1, st, isInput, hasIOCtrl) ==
    LET isFormatted == isDataTransferFormatted(st)
        isList == isFormatted /\ isDataTransferList(st)
        isInternal == isDataTransferInternal(st)
        descRef == isInternal /\ maybeGetInternalIODescriptor(st)
        isInternalWithDesc == descRef
        isNml == isDataTransferNamelist(st)
        controls == IF hasIOCtrl THEN st.specs ELSE <<>>
        csi == lowerErrorSpec(controls)
        ioFunc == getBeginDataTransferFunc(isInput, isFormatted,
                                           isList \/ isNml, isInternal,
                                           isInternalWithDesc)
        ioArgs == genBeginDataTransferCallArgs(hasIOCtrl, isFormatted,
                                               isList \/ isNml, isInternal,
                                               descRef, st.unitWidth > 0,
                                               IF isInput
                                               THEN "DefaultInputUnit"
                                               ELSE "DefaultOutputUnit")
        L2 == EmitV(L1, CallOp(ioFunc, "begin", NULL, "", ioArgs))
        cookie == L2.nv
        insertPt == L2.ip
        L3 == IF hasIOCtrl
              THEN threadSpecs(genConditionHandlerCall(L2, cookie, csi),
                               cookie, controls, hasErrorConditionSpec(csi))
              ELSE L2
        L4 == IF isNml
              THEN genNamelistIO(L3, st.converter, cookie,
                                 IF isInput THEN "InputNamelist"
                                            ELSE "OutputNamelist",
                                 st.group, hasTransferConditionSpec(csi))
              ELSE genItemList(L3, cookie, st.items, isInput, isFormatted,
                               hasTransferConditionSpec(csi), FALSE)
        L5 == restoreInsertionPoint(L4, insertPt)
        L6 == genDeferredQueries(L5, cookie, controls)
    IN genEndIO(L6, cookie, csi)

genDataTransferStmt(st, isInput, hasIOCtrl) ==
    genDataTransferCalls(
        genBeginDataTransferUnit(genFormat(NewBuilder, st), st, hasIOCtrl),
        st, isInput, hasIOCtrl)

\* PRINT is a simplified case of WRITE; its generator returns nothing.
genPrintStatement(st) ==
    [genDataTransferStmt(st, FALSE, FALSE) EXCEPT !.ret = NULL]

genInquireStatement(st) ==
    IF st.kind = "INQUIRE_IOLENGTH"
    THEN \* Inquire by output list -- IOLENGTH=scalar-int-variable.
         LET csi == lowerErrorSpec(<<>>)
             L1 == genBeginCall(NewBuilder, "BeginInquireIoLength")
             cookie == L1.nv
             L2 == genItemList(L1, cookie, st.items, FALSE, FALSE, FALSE, FALSE)
             L3 == genIOGetVar(L2, "GetIoLength", cookie, "IOLENGTH")
         IN genEndIO(L3, cookie, csi)
    ELSE LET csi == lowerErrorSpec(st.specs)
             inquireFileUnit == "UNIT" \in Range(st.specs)
             L1 == IF inquireFileUnit
                   THEN genIOUnitNumber(NewBuilder, st.unitWidth, csi)
                   ELSE NewBuilder
             L2 == genBeginCall(L1, IF inquireFileUnit
                                    THEN "BeginInquireUnit"
                                    ELSE "BeginInquireFile")
             cookie == L2.nv
             L3 == genConditionHandlerCall(L2, cookie, csi)
             insertPt == L3.ip
             L4 == threadInquire(L3, cookie, st.specs,
                                 hasErrorConditionSpec(csi))
         IN genEndIO(restoreInsertionPoint(L4, insertPt), cookie, csi)

\* ------------------------------------------------------------ statements
\* The statements the lowering is applied to.  A statement is its kind, its
\* specifier list in source order, the bit width of its unit expression (0
\* if the unit is not an integer expression), the form of its format and of
\* its unit, and its item list.
RECURSIVE SeqsNoRep(_, _)
SeqsNoRep(S, n) ==
    IF n = 0
    THEN {<<>>}
    ELSE LET shorter == SeqsNoRep(S, n - 1)
         IN shorter \cup
            {Append(q, x) : <<q, x>> \in
                 {<<q, x>> \in shorter \X S : Len(q) = n - 1 /\ x \notin Range(q)}}

RECURSIVE ListShapes(_)
RECURSIVE NodeShapes(_)
\* Item lists of exactly n nodes; an implied-do is a node with a body.
ListShapes(n) ==
    IF n = 0
    THEN {<<>>}
    ELSE UNION {{<<f>> \o rest : <<f, rest>> \in
                     NodeShapes(m) \X ListShapes(n - m)} : m \in 1..n}
NodeShapes(m) ==
    IF m = 1
    THEN {[k |-> "item"]}
    ELSE {[k |-> "do", items |-> b] : b \in ListShapes(m - 1)}

LoopVarNames == <<"i", "j", "k", "l", "m">>
ItemNames == <<"a", "b", "c", "d", "e">>
LoopVars == Range(LoopVarNames)

RECURSIVE NameItems(_, _, _, _)
\* Names the scalar items in source order (alternately INTEGER and LOGICAL)
\* and the loop variables by nesting depth; yields <<items, next index>>.
NameItems(shapes, depth, next, ctl) ==
    IF shapes = <<>>
    THEN <<(<<>>), next>>
    ELSE LET h == Head(shapes)
             body == NameItems(h.items, depth + 1, next, ctl)
             first == IF h.k = "item"
                      THEN <<[k |-> "item", name |-> ItemNames[next],
                              ty |-> IF next % 2 = 1 THEN INT32
                                                     ELSE LOGICAL32],
                             next + 1>>
                      ELSE <<[k |-> "do", var |-> LoopVarNames[depth],
                              lower |-> ctl[1], upper |-> ctl[2],
                              step |-> ctl[3], items |-> body[1]],
                             body[2]>>
             rest == NameItems(Tail(shapes), depth, first[2], ctl)
         IN <<(<<first[1]>> \o rest[1]), rest[2]>>

HasLoop(shapes) == \E n \in 1..Len(shapes) : shapes[n].k = "do"

\* Loop controls <<lower, upper, step>>: zero-trip, one-trip and several-trip
\* loops, counting up and down.  A zero step is not a Fortran loop.
LoopControls == {1} \X (0..MaxUpper) \X {-1, 1, 2}

ItemLists ==
    UNION {{NameItems(sh, 1, 1, ctl)[1] :
                ctl \in IF HasLoop(sh) THEN LoopControls ELSE {<<1, 1, 1>>}} :
           sh \in UNION {ListShapes(n) : n \in 0..MaxNodes}}

ScalarItem == [k |-> "item", name |-> "a", ty |-> INT32]
UnitWidths == {32, 64}

\* The variable of an internal unit: a character scalar or array of the
\* default kind or of another kind.
CharUnit == Ty("char", DefaultCharBits, 0, TRUE)

UnitVars ==
    {Ty("char", w, rank, w = DefaultCharBits) :
        <<w, rank>> \in {8, 32} \X {0, 1}}

\* A variable of a NAMELIST group.
Object(name, isGlobal, isAllocatableOrPointer, inCommon) ==
    [name |-> name, isGlobal |-> isGlobal,
     isAllocatableOrPointer |-> isAllocatableOrPointer, inCommon |-> inCommon]

\* The variables a group is made of: a module variable, a module pointer, a
\* pointer in a common block, a local variable.
Objects ==
    {Object("x", TRUE, FALSE, FALSE), Object("p", TRUE, TRUE, FALSE),
     Object("c", TRUE, TRUE, TRUE), Object("l", FALSE, FALSE, FALSE)}

\* The NAMELIST groups, of one or two variables.
NmlGroups ==
    {[name |-> "g", objects |-> q] :
        q \in SeqsNoRep(Objects, MaxObjects) \ {<<>>}}

\* The scopes a request is made in, with the non-type-bound defined IO
\* procedures visible in each: none, an external procedure, a dummy
\* procedure, both.  (The lowering of a procedure pointer in a defined IO
\* table stops with "not yet implemented".)
Scopes ==
    {[name |-> "s1", procs |-> {}], [name |-> "s2", procs |-> {"external"}],
     [name |-> "s3", procs |-> {"dummy"}],
     [name |-> "s4", procs |-> {"external", "dummy"}]}

\* The converter of a statement: its scope and the globals of its module.
Converter(scope) == [scope |-> scope, globals |-> {}]

ModuleGroup == [name |-> "g", objects |-> <<Object("x", TRUE, FALSE, FALSE)>>]

Stmt(kind, specs, unitWidth, format, io, items) ==
    [kind |-> kind, specs |-> specs, unitWidth |-> unitWidth,
     format |-> format, io |-> io, unitVar |-> CharUnit, items |-> items,
     group |-> ModuleGroup, converter |-> Converter(NoScope), labels |-> {}]

ErrSpecs == {"IOSTAT", "IOMSG", "ERR"}

\* Statements that only thread specifiers.
SpecStmts ==
    {Stmt("OPEN", <<"UNIT">> \o q, w, "none", "external", <<>>) :
        <<q, w>> \in SeqsNoRep(ErrSpecs \cup {"FILE", "STATUS"}, MaxSpecs)
                     \X UnitWidths}
    \cup {Stmt("OPEN", q, 0, "none", "external", <<>>) :
        q \in {q \in SeqsNoRep(ErrSpecs \cup {"NEWUNIT", "FILE", "STATUS"},
                               MaxSpecs) : "NEWUNIT" \in Range(q)}}
    \cup {Stmt("CLOSE", <<"UNIT">> \o q, w, "none", "external", <<>>) :
        <<q, w>> \in SeqsNoRep(ErrSpecs \cup {"STATUS"}, MaxSpecs)
                     \X (UnitWidths \cup {128})}
    \cup {Stmt(kind, <<"UNIT">> \o q, 32, "none", "external", <<>>) :
        <<kind, q>> \in {"BACKSPACE", "ENDFILE", "FLUSH", "REWIND"} \X
            SeqsNoRep(ErrSpecs, MaxSpecs)}
    \cup {Stmt("WAIT", <<"UNIT">> \o q, w, "none", "external", <<>>) :
        <<q, w>> \in SeqsNoRep(CondSpecs \cup {"IDEXPR"}, MaxSpecs)
                     \X UnitWidths}
    \cup {Stmt("INQUIRE", <<u>> \o q, 32, "none", "external", <<>>) :
        <<u, q>> \in {"UNIT", "FILE"} \X
            SeqsNoRep(ErrSpecs \cup InquireSpecs, MaxSpecs)}

\* Data transfers of one scalar item under every specifier list.
TransferSpecStmts ==
    {Stmt("READ", q, 32, "fmt", "external", <<ScalarItem>>) :
        q \in SeqsNoRep(CondSpecs \cup {"ADVANCE", "REC", "SIZE", "ID"},
                        MaxSpecs)}
    \cup {Stmt("WRITE", q, w, "fmt", "external", <<ScalarItem>>) :
        <<q, w>> \in SeqsNoRep(ErrSpecs \cup {"ADVANCE", "REC", "ID"},
                               MaxSpecs) \X UnitWidths}

\* Data transfers of every form of unit and format.
TransferFormStmts ==
    {[Stmt(kind, q, 0, f, io, IF f = "nml" THEN <<>> ELSE <<ScalarItem>>)
         EXCEPT !.unitVar = v] :
        <<kind, q, f, io, v>> \in
            {<<kind, q, f, io, v>> \in
                {"READ", "WRITE"} \X {<<>>, <<"IOSTAT">>} \X
                {"none", "star", "fmt", "nml"} \X
                {"external", "internal"} \X UnitVars :
                /\ f = "none" => io = "external"
                /\ io = "external" => v = CharUnit}}

\* Namelist transfers of every group in every scope.
NmlStmts ==
    {[Stmt(kind, q, 0, "nml", "external", <<>>)
         EXCEPT !.group = g, !.converter = Converter(sc)] :
        <<kind, q, g, sc>> \in
            {"READ", "WRITE"} \X {<<>>, <<"IOSTAT">>} \X NmlGroups \X Scopes}

\* Data transfers whose format is an integer variable with assigned labels.
AssignedFormatStmts ==
    {[Stmt(kind, q, w, "assigned", "external", <<ScalarItem>>)
         EXCEPT !.labels = labels] :
        <<kind, q, w, labels>> \in
            {<<kind, q, w, labels>> \in
                {"READ", "WRITE", "PRINT"} \X {<<>>, <<"IOSTAT">>} \X
                {0, 64} \X SUBSET (DOMAIN LabelTable) :
                kind = "PRINT" => q = <<>> /\ w = 0}}

\* A variable with a vector subscript that selects n elements.
VectorItem(name, ty, n) == [k |-> "vector", name |-> name, ty |-> ty, n |-> n]

\* READ statements with a vector-subscripted item: alone, before and after
\* a scalar item, and in an implied-do loop.
VectorStmts ==
    UNION {{Stmt("READ", q, 0, "star", "external", items) :
               items \in {<<VectorItem("v", ty, n)>>,
                          <<VectorItem("v", ty, n),
                            [k |-> "item", name |-> "b", ty |-> INT32]>>,
                          <<[k |-> "item", name |-> "a", ty |-> INT32],
                            VectorItem("v", ty, n)>>,
                          <<[k |-> "do", var |-> "i", lower |-> 1,
                             upper |-> 2, step |-> 1,
                             items |-> <<VectorItem("v", ty, n)>>]>>}} :
           <<q, ty, n>> \in {<<>>, <<"IOSTAT">>} \X {INT32, LOGICAL32}
                            \X (0..MaxElements)}

\* Transfers of a loop nested in a loop and followed by an item in the body
\* of the outer loop.
NestedStmts ==
    {Stmt(kind, q, 0, "star", "external",
          <<[k |-> "do", var |-> "i", lower |-> 1, upper |-> MaxUpper,
             step |-> 1,
             items |-> <<[k |-> "do", var |-> "j", lower |-> 1,
                          upper |-> MaxUpper, step |-> 1,
                          items |-> <<[k |-> "item", name |-> "a",
                                       ty |-> INT32]>>],
                         [k |-> "item", name |-> "b", ty |-> LOGICAL32]>>]>>) :
        <<kind, q>> \in {"READ", "WRITE"} \X {<<>>, <<"IOSTAT">>, <<"END">>}}

\* The variable that a control expression reads, and the values it holds
\* before the statement.
BoundVar == "n"
BoundValues == 1..MaxUpper

\* Controls with expressions that read the variable: i = 1, n (no step) and
\* i = n, MaxUpper + 1, n.
BoundControls ==
    {[k |-> "do", var |-> "i", lower |-> 1, vars |-> [upper |-> BoundVar]],
     [k |-> "do", var |-> "i", upper |-> MaxUpper + 1,
      vars |-> [lower |-> BoundVar, step |-> BoundVar]]}

\* Transfers of an item and a loop whose control reads a variable that is an
\* item of the body of the loop.
BoundStmts ==
    {Stmt(kind, q, 0, "star", "external",
          <<[k |-> "item", name |-> "a", ty |-> INT32],
            [items |-> <<[k |-> "item", name |-> BoundVar, ty |-> INT32]>>]
                @@ ctl>>) :
        <<kind, q, ctl>> \in {"READ", "WRITE"} \X {<<>>, <<"IOSTAT">>} \X
                             BoundControls}

TransferConds == {<<"IOSTAT">>, <<"IOMSG", "ERR">>, <<"END", "SIZE">>}

\* Data transfers of every item list.
TransferItemStmts ==
    {Stmt("READ", q, 0, "star", "external", items) :
        <<q, items>> \in TransferConds \X ItemLists}
    \cup {Stmt("READ", <<"IOSTAT">>, 0, "none", "external", items) :
        items \in ItemLists}
    \cup {Stmt("WRITE", q, 0, "star", "external", items) :
        <<q, items>> \in {<<>>, <<"IOSTAT">>} \X ItemLists}
    \cup {Stmt("PRINT", <<>>, 0, "star", "external", items) :
        items \in ItemLists}
    \cup {Stmt("PRINT", <<>>, 0, "fmt", "external", <<ScalarItem>>)}
    \cup {Stmt("INQUIRE_IOLENGTH", <<>>, 0, "none", "external", items) :
        items \in ItemLists}

\* The types of an item: the intrinsic types of every kind, scalars and
\* arrays, i1, and a derived type.
ItemTypes ==
    {Ty(t[1], t[2], rank, t[1] = "char" => t[2] = DefaultCharBits) :
        <<t, rank>> \in
            (({"int", "uint"} \X {8, 16, 32, 64, 128})
             \cup ({"real", "complex"} \X {16, 32, 64, 80, 128})
             \cup ({"logical"} \X {8, 16, 32, 64})
             \cup ({"char"} \X {8, 16, 32})
             \cup {<<"i1", 1>>, <<"derived", 0>>}) \X {0, 1}}

\* Data transfers of one item of every type, formatted and unformatted.
ItemTypeStmts ==
    {Stmt(kind, q, 32, f, "external",
          <<[k |-> "item", name |-> "a", ty |-> ty]>>) :
        <<kind, q, f, ty>> \in {"READ", "WRITE"} \X {<<>>, <<"IOSTAT">>} \X
                               {"none", "fmt"} \X ItemTypes}

Stmts == SpecStmts \cup TransferSpecStmts \cup TransferFormStmts \cup NmlStmts
             \cup TransferItemStmts \cup ItemTypeStmts
             \cup AssignedFormatStmts \cup VectorStmts \cup NestedStmts
             \cup BoundStmts

\* -------------------------------------------------------------- execution
\* The emitted operations are executed one per step.  A frame of the stack
\* is <<block, index of the next operation, iterations begun>>.
Top == stack[Len(stack)]
AtOp == pc = "exec" /\ Top[2] <= Len(ir.blocks[Top[1]])
CurOp == ir.blocks[Top[1]][Top[2]]
Advance(stk) == [stk EXCEPT ![Len(stk)][2] = @ + 1]
Pop(stk) == SubSeq(stk, 1, Len(stk) - 1)
OwnerOp(b) == ir.blocks[ir.parent[b][1]][ir.parent[b][2]]
Bind(e, v, x) == IF v = NULL THEN e ELSE [e EXCEPT ![v] = x]
LoopSnapshot == [v \in LoopVars \cap DOMAIN store |-> store[v]]

\* The memory before the statement: the variable that the control
\* expressions read has a value.
InitialStores(st) ==
    IF st \in BoundStmts THEN {[v \in {BoundVar} |-> x] : x \in BoundValues}
                         ELSE {<<>>}

\* The values that an input call may leave in the variable that the control
\* expressions read.
InputValues == 1..(MaxUpper + 1)

\* The memory after a runtime call: an input call for the variable that the
\* control expressions read may have defined it anew.
StoresAfterCall(op) ==
    IF stmt.kind = "READ" /\ op.cls = "item" /\ op.item \in DOMAIN store
    THEN {(op.item :> x) @@ store : x \in InputValues}
    ELSE {store}
NoLog == [iter |-> <<>>, done |-> <<>>]

Init ==
    /\ stmt \in Stmts
    /\ ir = NewBuilder
    /\ pc = "lower"
    /\ stack = <<>>
    /\ env = <<>>
    /\ store \in InitialStores(stmt)
    /\ trace = <<>>
    /\ fails = 0
    /\ loopLog = NoLog
    /\ round = 1
    /\ prevTrace = <<>>

\* The emitted operations of a statement are handed to the execution.
Emitted(L) ==
    /\ ir' = L
    /\ pc' = "exec"
    /\ stack' = << <<1, 1, 0>> >>
    /\ env' = [v \in 1..L.nv |-> 0]
    /\ UNCHANGED <<stmt, store, trace, fails, loopLog, round, prevTrace>>

BasicKinds == {"CLOSE", "BACKSPACE", "ENDFILE", "FLUSH", "REWIND"}

GenBasicIOStmt ==
    pc = "lower" /\ stmt.kind \in BasicKinds /\ Emitted(genBasicIOStmt(stmt))

GenOpenStatement ==
    pc = "lower" /\ stmt.kind = "OPEN" /\ Emitted(genOpenStatement(stmt))

GenWaitStatement ==
    pc = "lower" /\ stmt.kind = "WAIT" /\ Emitted(genWaitStatement(stmt))

GenReadStatement ==
    /\ pc = "lower" /\ stmt.kind = "READ"
    /\ Emitted(genDataTransferStmt(stmt, TRUE, TRUE))

GenWriteStatement ==
    /\ pc = "lower" /\ stmt.kind = "WRITE"
    /\ Emitted(genDataTransferStmt(stmt, FALSE, TRUE))

GenPrintStatement ==
    pc = "lower" /\ stmt.kind = "PRINT" /\ Emitted(genPrintStatement(stmt))

GenInquireStatement ==
    /\ pc = "lower" /\ stmt.kind \in {"INQUIRE", "INQUIRE_IOLENGTH"}
    /\ Emitted(genInquireStatement(stmt))

\* What a runtime call may return.  The unit check returns a status, the
\* specifier and item calls a success flag; a second lowering of the same
\* statement is followed along its all-success path only.
CallResults(op) ==
    CASE op.cls = "begin" -> {1}
      [] op.cls = "check" -> IF round = 1 THEN {0, 1} ELSE {0}
      [] op.cls \in {"spec", "item"} ->
            IF round = 1 /\ fails < MaxFails THEN {0, 1} ELSE {1}
      [] op.cls \in {"query", "end"} -> {0, 1}
      [] OTHER -> {0}

\* A runtime call.  An out-of-range unit is fatal in the runtime unless the
\* check was told that the statement handles errors.
ExecCall ==
    /\ AtOp
    /\ CurOp.k = "call"
    /\ \E res \in CallResults(CurOp) :
         /\ trace' = Append(trace,
                [fn |-> CurOp.fn, cls |-> CurOp.cls,
                 cookie |-> IF CurOp.cookie = NULL THEN 0
                            ELSE env[CurOp.cookie],
                 item |-> CurOp.item, flags |-> CurOp.flags,
                 at |-> LoopSnapshot, blk |-> Top[1], res |-> res,
                 elem |-> IF "elem" \in DOMAIN CurOp THEN env[CurOp.elem]
                                                    ELSE 0])
         /\ env' = Bind(env, CurOp.r, res)
         /\ fails' = IF CurOp.cls \in {"spec", "item"} /\ res = 0
                     THEN fails + 1 ELSE fails
         /\ pc' = IF CurOp.cls = "check" /\ res # 0 /\ CurOp.flags[1] = 0
                  THEN "crash" ELSE "exec"
    /\ store' \in StoresAfterCall(CurOp)
    /\ stack' = Advance(stack)
    /\ UNCHANGED <<stmt, ir, loopLog, round, prevTrace>>

\* Constants and integer arithmetic.
ExecArith ==
    /\ AtOp
    /\ CurOp.k \in {"const", "load", "addi", "select", "cmpeq0"}
    /\ env' = [env EXCEPT ![CurOp.r] =
                 CASE CurOp.k = "const" -> CurOp.val
                   [] CurOp.k = "load" -> store[CurOp.var]
                   [] CurOp.k = "addi" -> env[CurOp.a] + env[CurOp.b]
                   [] CurOp.k = "select" ->
                         IF env[CurOp.c] = 1 THEN env[CurOp.a]
                                             ELSE env[CurOp.b]
                   [] CurOp.k = "cmpeq0" -> B2I(env[CurOp.a] = 0)]
    /\ trace' = IF CurOp.k = "load"
                THEN Append(trace,
                         [fn |-> CurOp.operand, cls |-> "eval", cookie |-> 0,
                          item |-> CurOp.var, flags |-> <<>>,
                          at |-> LoopSnapshot, blk |-> Top[1],
                          res |-> store[CurOp.var], elem |-> 0])
                ELSE trace
    /\ stack' = Advance(stack)
    /\ UNCHANGED <<stmt, ir, pc, store, fails, loopLog, round, prevTrace>>

\* The values the format variable can hold when the statement is executed:
\* the labels of the program unit and a number that is no label.
LabelValues == DOMAIN LabelTable \cup {40}

\* The select on an assigned label: the case of the variable's value hands
\* its text and length on; without such a case the fatal error is reported
\* and the program ends.
ExecSelect ==
    /\ AtOp
    /\ CurOp.k = "select_case"
    /\ \E v \in LabelValues :
         LET hit == {n \in 1..Len(CurOp.cases) : CurOp.cases[n].label = v}
         IN IF hit # {}
            THEN LET n == CHOOSE n \in hit : TRUE
                 IN /\ env' = [env EXCEPT ![CurOp.r] = v,
                                          ![CurOp.buff] =
                                              IF CurOp.cases[n].ref = <<>>
                                              THEN 0 ELSE n,
                                          ![CurOp.len] = CurOp.cases[n].len]
                    /\ stack' = Advance(stack)
                    /\ UNCHANGED <<pc, trace>>
            ELSE /\ env' = [env EXCEPT ![CurOp.r] = v]
                 /\ trace' = Append(trace,
                        [fn |-> "ReportFatalUserError", cls |-> "fatal",
                         cookie |-> 0, item |-> "FMT", flags |-> <<>>,
                         at |-> LoopSnapshot, blk |-> Top[1], res |-> 0,
                         elem |-> 0])
                 /\ pc' = "crash"
                 /\ UNCHANGED stack
    /\ UNCHANGED <<stmt, ir, store, fails, loopLog, round, prevTrace>>

\* The operations that build the description of a NAMELIST group.
ExecDescriptor ==
    /\ AtOp
    /\ CurOp.k \in {"alloca", "addr_of", "member_desc", "store_desc",
                    "convert"}
    /\ stack' = Advance(stack)
    /\ UNCHANGED <<stmt, ir, pc, env, store, trace, fails, loopLog, round,
                   prevTrace>>

\* A store to a variable of the program; a LOGICAL that was read is
\* re-stored in its declared width.
ExecStore ==
    /\ AtOp
    /\ CurOp.k \in {"store", "extend"}
    /\ store' = IF CurOp.k = "store"
                THEN (CurOp.var :> env[CurOp.val]) @@ store
                ELSE (CurOp.item :> 1) @@ store
    /\ loopLog' = IF /\ CurOp.k = "store"
                     /\ loopLog.done # <<>>
                     /\ loopLog.done[1].pos = <<Top[1], Top[2] - 1>>
                  THEN [loopLog EXCEPT !.done[1].stored = TRUE]
                  ELSE loopLog
    /\ stack' = Advance(stack)
    /\ UNCHANGED <<stmt, ir, pc, env, trace, fails, round, prevTrace>>

\* fir.if: the region of the condition's value is entered, if it exists.
ExecIf ==
    /\ AtOp
    /\ CurOp.k = "if"
    /\ stack' = IF env[CurOp.cond] = 1
                THEN Append(stack, <<CurOp.thenB, 1, 0>>)
                ELSE IF CurOp.elseB # 0
                     THEN Append(stack, <<CurOp.elseB, 1, 0>>)
                     ELSE Advance(stack)
    /\ UNCHANGED <<stmt, ir, pc, env, store, trace, fails, loopLog, round,
                   prevTrace>>

\* The loop goes on while the induction value has not passed the upper
\* bound (and, for fir.iterate_while, the flag is true).
InRange(iv, ub, step) == (step > 0 /\ iv <= ub) \/ (step < 0 /\ iv >= ub)

LoopDone(op, n, final, flag) ==
    [pos |-> ir.parent[op.body], var |-> ir.blocks[op.body][1].var,
     checked |-> op.k = "iterate_while",
     lb |-> env[op.lb], ub |-> env[op.ub], step |-> env[op.step],
     iters |-> n, lastIv |-> IF n = 0 THEN env[op.lb] ELSE env[op.iv],
     final |-> final, ok |-> flag, stored |-> FALSE]

\* fir.do_loop / fir.iterate_while: the first boundary check.
ExecLoopEnter ==
    /\ AtOp
    /\ CurOp.k \in {"do_loop", "iterate_while"}
    /\ LET op == CurOp
           checked == op.k = "iterate_while"
           flag == IF checked THEN env[op.init] ELSE 1
           go == InRange(env[op.lb], env[op.ub], env[op.step]) /\ flag = 1
       IN IF go
          THEN /\ env' = IF checked
                         THEN [env EXCEPT ![op.iv] = env[op.lb],
                                          ![op.it] = flag]
                         ELSE [env EXCEPT ![op.iv] = env[op.lb]]
               /\ stack' = Append(stack, <<op.body, 1, 1>>)
               /\ loopLog' = NoLog
          ELSE /\ env' = IF checked
                         THEN [env EXCEPT ![op.r] = env[op.lb],
                                          ![op.r1] = flag]
                         ELSE [env EXCEPT ![op.r] = env[op.lb]]
               /\ stack' = Advance(stack)
               /\ loopLog' = [iter |-> <<>>,
                              done |-> <<LoopDone(op, 0, env[op.lb], flag)>>]
    /\ UNCHANGED <<stmt, ir, pc, store, trace, fails, round, prevTrace>>

\* The loop over the elements of a vector subscript: the first check.
ExecElementsEnter ==
    /\ AtOp
    /\ CurOp.k \in {"elements_do", "elements_while"}
    /\ LET op == CurOp
           flag == IF op.k = "elements_while" THEN env[op.init] ELSE 1
       IN IF env[op.n] >= 1 /\ flag = 1
          THEN /\ env' = [env EXCEPT ![op.iv] = 1]
               /\ stack' = Append(stack, <<op.body, 1, 1>>)
          ELSE /\ env' = Bind(env, op.r, flag)
               /\ stack' = Advance(stack)
    /\ UNCHANGED <<stmt, ir, pc, store, trace, fails, loopLog, round,
                   prevTrace>>

\* The end of the body of the loop over the elements: the next element is
\* transferred unless there is none or the flag yielded is false.
ExecElementsResult ==
    /\ AtOp
    /\ CurOp.k = "result"
    /\ OwnerOp(Top[1]).k \in {"elements_do", "elements_while"}
    /\ LET op == OwnerOp(Top[1])
           flag == IF op.k = "elements_while" THEN env[CurOp.vals[1]] ELSE 1
       IN IF env[op.iv] + 1 <= env[op.n] /\ flag = 1
          THEN /\ env' = [env EXCEPT ![op.iv] = @ + 1]
               /\ stack' = [stack EXCEPT ![Len(stack)] =
                                            <<Top[1], 1, Top[3] + 1>>]
          ELSE /\ env' = Bind(env, op.r, flag)
               /\ stack' = Advance(Pop(stack))
    /\ UNCHANGED <<stmt, ir, pc, store, trace, fails, loopLog, round,
                   prevTrace>>

\* fir.result in a region of a fir.if: the value becomes the result of the
\* fir.if.
ExecIfResult ==
    /\ AtOp
    /\ CurOp.k = "result"
    /\ OwnerOp(Top[1]).k = "if"
    /\ env' = Bind(env, OwnerOp(Top[1]).r, env[CurOp.vals[1]])
    /\ stack' = Advance(Pop(stack))
    /\ UNCHANGED <<stmt, ir, pc, store, trace, fails, loopLog, round,
                   prevTrace>>

\* fir.result in the body of a loop: the values become the next induction
\* value (and flag), and after the next boundary check either the body is
\* run again or they are the results of the loop.
ExecLoopResult ==
    /\ AtOp
    /\ CurOp.k = "result"
    /\ OwnerOp(Top[1]).k \in {"do_loop", "iterate_while"}
    /\ LET op == OwnerOp(Top[1])
           checked == op.k = "iterate_while"
           nxt == env[CurOp.vals[1]]
           flag == IF checked THEN env[CurOp.vals[2]] ELSE 1
           go == InRange(nxt, env[op.ub], env[op.step]) /\ flag = 1
           iter == [iv |-> env[op.iv], next |-> nxt, ok |-> flag,
                    step |-> env[op.step], checked |-> checked, go |-> go,
                    body |-> op.body, at |-> LoopSnapshot]
       IN IF go
          THEN /\ env' = IF checked
                         THEN [env EXCEPT ![op.iv] = nxt, ![op.it] = flag]
                         ELSE [env EXCEPT ![op.iv] = nxt]
               /\ stack' = [stack EXCEPT ![Len(stack)] =
                                            <<Top[1], 1, Top[3] + 1>>]
               /\ loopLog' = [iter |-> <<iter>>, done |-> <<>>]
          ELSE /\ env' = IF checked
                         THEN [env EXCEPT ![op.r] = nxt, ![op.r1] = flag]
                         ELSE [env EXCEPT ![op.r] = nxt]
               /\ stack' = Advance(Pop(stack))
               /\ loopLog' = [iter |-> <<iter>>,
                              done |-> <<LoopDone(op, Top[3], nxt, flag)>>]
    /\ UNCHANGED <<stmt, ir, pc, store, trace, fails, round, prevTrace>>

\* The end of a region without a terminator (a guard outside of loops).
ExecBlockEnd ==
    /\ pc = "exec"
    /\ Len(stack) > 1
    /\ Top[2] > Len(ir.blocks[Top[1]])
    /\ stack' = Advance(Pop(stack))
    /\ UNCHANGED <<stmt, ir, pc, env, store, trace, fails, loopLog, round,
                   prevTrace>>

\* The end of the statement's operations.
Finish ==
    /\ pc = "exec"
    /\ Len(stack) = 1
    /\ Top[2] > Len(ir.blocks[Top[1]])
    /\ pc' = "done"
    /\ UNCHANGED <<stmt, ir, stack, env, store, trace, fails, loopLog, round,
                   prevTrace>>

Next ==
    \/ GenBasicIOStmt
    \/ GenOpenStatement
    \/ GenWaitStatement
    \/ GenReadStatement
    \/ GenWriteStatement
    \/ GenPrintStatement
    \/ GenInquireStatement
    \/ ExecCall
    \/ ExecArith
    \/ ExecSelect
    \/ ExecDescriptor
    \/ ExecStore
    \/ ExecIf
    \/ ExecLoopEnter
    \/ ExecElementsEnter
    \/ ExecElementsResult
    \/ ExecIfResult
    \/ ExecLoopResult
    \/ ExecBlockEnd
    \/ Finish

Spec == Init /\ [][Next]_vars

\* The specifiers that enable the checking of call results.
CheckingSpecs == {"IOSTAT", "ERR", "END", "EOR"}
IsUnchecked(x) == x \notin CheckingSpecs

\* After an execution in which every call succeeded, the same statement
\* without its checking specifiers is lowered and run.
Relower ==
    /\ pc = "done"
    /\ round = 1
    /\ fails = 0
    /\ hasTransferConditionSpec(lowerErrorSpec(stmt.specs))
    /\ \E n \in 1..Len(trace) : trace[n].cls = "begin"
    /\ stmt' = [stmt EXCEPT !.specs = SelectSeq(@, IsUnchecked)]
    /\ prevTrace' = trace
    /\ round' = 2
    /\ pc' = "lower"
    /\ ir' = NewBuilder
    /\ stack' = <<>>
    /\ env' = <<>>
    /\ store' = <<>>
    /\ trace' = <<>>
    /\ fails' = 0
    /\ loopLog' = NoLog

\* The statements with a checking specifier; PRINT has none.  Both runs
\* begin with an empty memory, so the statements whose loop control reads a
\* variable are left out.
InitPair ==
    /\ Init
    /\ hasTransferConditionSpec(lowerErrorSpec(stmt.specs))
    /\ InitialStores(stmt) = {<<>>}

NextPair ==
    \/ GenBasicIOStmt
    \/ GenOpenStatement
    \/ GenWaitStatement
    \/ GenReadStatement
    \/ GenWriteStatement
    \/ GenInquireStatement
    \/ ExecCall
    \/ ExecArith
    \/ ExecSelect
    \/ ExecDescriptor
    \/ ExecStore
    \/ ExecIf
    \/ ExecLoopEnter
    \/ ExecElementsEnter
    \/ ExecElementsResult
    \/ ExecIfResult
    \/ ExecLoopResult
    \/ ExecBlockEnd
    \/ Finish
    \/ Relower

SpecPair == InitPair /\ [][NextPair]_vars

\* The transfers of one item of each type.
InitItem == Init /\ stmt \in ItemTypeStmts

NextItem ==
    \/ GenReadStatement
    \/ GenWriteStatement
    \/ ExecCall
    \/ ExecStore
    \/ Finish

SpecItem == InitItem /\ [][NextItem]_vars

\* The requests of the description of one NAMELIST group in one module.
NmlRequestStmts ==
    {[Stmt("READ", <<>>, 0, "nml", "external", <<>>) EXCEPT !.group = g] :
        g \in NmlGroups}

InitNml ==
    /\ stmt \in NmlRequestStmts
    /\ ir = NewBuilder
    /\ pc = "lower"
    /\ stack = <<>>
    /\ env = <<>>
    /\ store = <<>>
    /\ trace = <<>>
    /\ fails = 0
    /\ loopLog = NoLog
    /\ round = 1
    /\ prevTrace = <<>>

\* The operation of L that defines value v.
ValueOp(L, v) ==
    LET ops == L.blocks[1]
    IN ops[CHOOSE n \in 1..Len(ops) : "r" \in DOMAIN ops[n] /\ ops[n].r = v]

\* The address a request returned: a global by its name, stack data by the
\* value of its allocation.
Address(L) ==
    LET last == ValueOp(L, L.val)
        op == IF last.k = "convert" THEN ValueOp(L, last.a) ELSE last
    IN IF op.k = "addr_of" THEN <<"global", op.name, 0>>
                           ELSE <<"stack", "", op.r>>

\* A statement of some scope of the module requests the description of the
\* group: getNamelistGroup is applied to the module as the earlier requests
\* left it.  The trace keeps, for each request, its scope, the address it
\* returned, the operations it emitted and the globals it defined.
GetNamelistGroup ==
    /\ pc = "lower"
    /\ Len(trace) < MaxRequests
    /\ \E scope \in Scopes :
          LET L == getNamelistGroup([ir EXCEPT !.scope = scope], stmt.group)
          IN /\ ir' = L
             /\ trace' = Append(trace,
                   [cls |-> "group", scope |-> scope, addr |-> Address(L),
                    ops |-> SubSeq(L.blocks[1], Len(ir.blocks[1]) + 1,
                                   Len(L.blocks[1])),
                    defs |-> SubSeq(L.defs, Len(ir.defs) + 1, Len(L.defs))])
    /\ UNCHANGED <<stmt, pc, stack, env, store, fails, loopLog, round,
                   prevTrace>>

\* A statement of some scope transfers an item of derived type and requests
\* the table of the defined IO procedures of its scope.
GetNonTbpDefinedIoTableAddr ==
    /\ pc = "lower"
    /\ Len(trace) < MaxRequests
    /\ \E scope \in Scopes :
          LET L0 == [ir EXCEPT !.scope = scope]
              L == getNonTbpDefinedIoTableAddr(L0, getDefinedIoProcMap(L0),
                                               FALSE)
          IN /\ ir' = L
             /\ trace' = Append(trace,
                   [cls |-> "table", scope |-> scope, addr |-> Address(L),
                    ops |-> SubSeq(L.blocks[1], Len(ir.blocks[1]) + 1,
                                   Len(L.blocks[1])),
                    defs |-> SubSeq(L.defs, Len(ir.defs) + 1, Len(L.defs))])
    /\ UNCHANGED <<stmt, pc, stack, env, store, fails, loopLog, round,
                   prevTrace>>

NextNml == GetNamelistGroup \/ GetNonTbpDefinedIoTableAddr

SpecNml == InitNml /\ [][NextNml]_vars

\* ------------------------------------------------------------ properties
csiOf(st) == lowerErrorSpec(st.specs)
Events(classes) == {n \in 1..Len(trace) : trace[n].cls \in classes}
Calls(fn) == {n \in 1..Len(trace) : trace[n].fn = fn}
Failed == {n \in Events({"spec", "item"}) : trace[n].res = 0}
UnitRejected == \E n \in Events({"check"}) : trace[n].res # 0

\* C1: when IOSTAT= or ERR= is present, no specifier-setter or item-transfer
\* call is executed after one of them has returned false.
C1_NoCallAfterFailure ==
    hasErrorConditionSpec(csiOf(stmt)) =>
        \A m \in Failed : \A n \in Events({"spec", "item"}) : n <= m

C1_Witness ==
    /\ pc = "done"
    /\ stmt.kind = "READ"
    /\ stmt.specs = <<"ADVANCE", "ERR", "REC">>
    /\ \E m \in Failed : trace[m].fn = "SetAdvance"

\* C2 as stated: every execution issues exactly one begin call and exactly
\* one EndIoStatement call.
C2_OneBeginOneEnd ==
    pc = "done" =>
        /\ Cardinality(Events({"begin"})) = 1
        /\ Cardinality(Events({"end"})) = 1

\* C2 amended: an execution whose unit passes the range check, or has none,
\* issues exactly one begin call and exactly one EndIoStatement call, on the
\* cookie of the begin call and in the region of the begin call, outside of
\* every guard on the flag; an execution whose unit fails the range check
\* issues neither.
C2_OneBeginOneEndUnlessRejected ==
    /\ Cardinality(Events({"begin"})) <= 1
    /\ Cardinality(Events({"end"})) <= 1
    /\ UnitRejected => Events({"begin", "end"}) = {}
    /\ pc = "done" /\ ~UnitRejected =>
           \E b \in Events({"begin"}) : \E e \in Events({"end"}) :
               /\ b < e
               /\ trace[e].cookie = trace[b].res
               /\ trace[e].blk = trace[b].blk

C2_Witness ==
    /\ pc = "done"
    /\ Failed # {}
    /\ hasErrorConditionSpec(csiOf(stmt))
    /\ stmt.unitWidth = 64
    /\ Events({"end"}) # {}

\* The phase of a runtime call in the order of a statement.
Phase(e) ==
    CASE e.cls \in {"check", "fatal"} -> 0
      [] e.cls = "begin" -> 1
      [] e.cls = "enable" -> 2
      [] e.cls = "spec" -> 3
      [] e.cls \in {"item", "eval"} -> 4
      [] e.cls = "query" -> 5
      [] e.cls = "iomsg" -> 6
      [] e.cls = "end" -> 7

C4_NoNewUnitAfterFailure ==
    stmt.kind = "OPEN" /\ hasErrorConditionSpec(csiOf(stmt)) =>
        \A m \in Failed : \A n \in Calls("GetNewUnit") : n < m

Trips(lb, ub, step) ==
    IF step > 0
    THEN IF ub < lb THEN 0 ELSE (ub - lb) \div step + 1
    ELSE IF lb < ub THEN 0 ELSE (lb - ub) \div (0 - step) + 1

LoopStored == loopLog.done # <<>> /\ loopLog.done[1].stored
DoneLoop == loopLog.done[1]

\* C5 as stated: after an implied-do the loop variable holds the value of
\* the last iteration attempted, which is not beyond the upper bound.
C5_LastIterationValue ==
    LoopStored =>
        /\ DoneLoop.var \in DOMAIN store
        /\ store[DoneLoop.var] = DoneLoop.lastIv
        /\ InRange(store[DoneLoop.var], DoneLoop.ub, DoneLoop.step)

\* C5 amended: after an implied-do that ran to completion the loop variable
\* holds lower + trips * step, the first value beyond the upper bound (the
\* lower bound itself for a zero-trip loop); after a checked implied-do that
\* was cut short by a failure it holds the value of the iteration that
\* failed.  It is never uninitialized.
C5_FinalValue ==
    LoopStored =>
        /\ DoneLoop.var \in DOMAIN store
        /\ IF DoneLoop.ok = 1
           THEN /\ DoneLoop.iters = Trips(DoneLoop.lb, DoneLoop.ub,
                                          DoneLoop.step)
                /\ store[DoneLoop.var] =
                       DoneLoop.lb + DoneLoop.iters * DoneLoop.step
                /\ ~InRange(store[DoneLoop.var], DoneLoop.ub, DoneLoop.step)
           ELSE /\ DoneLoop.checked
                /\ store[DoneLoop.var] = DoneLoop.lastIv
                /\ InRange(store[DoneLoop.var], DoneLoop.ub, DoneLoop.step)

C5_Witness ==
    /\ LoopStored
    /\ DoneLoop.ok = 1
    /\ DoneLoop.iters = 2
    /\ DoneLoop.step = 1
    /\ store[DoneLoop.var] = 3

LastIter == loopLog.iter[1]

\* C6: in a checked loop, a body that ends with a false flag leaves the
\* induction value where it is, no further iteration is run and the loop
\* yields false; a body that ends with a true flag advances the induction
\* value by exactly the step.
C6_FreezeOnFailure ==
    loopLog.iter # <<>> /\ LastIter.checked =>
        IF LastIter.ok = 0
        THEN /\ LastIter.next = LastIter.iv
             /\ ~LastIter.go
             /\ loopLog.done # <<>>
             /\ DoneLoop.ok = 0
             /\ DoneLoop.final = LastIter.iv
        ELSE LastIter.next = LastIter.iv + LastIter.step

C6_Witness ==
    /\ loopLog.iter # <<>>
    /\ LastIter.checked
    /\ LastIter.ok = 0
    /\ LastIter.iv = 2
    /\ LastIter.step = 1

\* The part of a call that the program decides: the entry point, the cookie,
\* the specifier or item, and the values of the loop variables at the call.
CallOf(e) == [fn |-> e.fn, cookie |-> e.cookie, item |-> e.item, at |-> e.at]
CallsOf(tr) ==
    LET sel == SelectSeqCls(tr, {"spec", "item", "query", "end"})
    IN [n \in 1..Len(sel) |-> CallOf(sel[n])]

\* C7: when every call succeeds, the specifier-setter, item-transfer, query
\* and end calls of a statement lowered with checking are, in order, entry
\* point and arguments, those of the statement lowered without checking.
C7_SameCallsWhenAllSucceed ==
    round = 2 /\ pc = "done" => CallsOf(trace) = CallsOf(prevTrace)

C7_Witness ==
    /\ round = 2
    /\ pc = "done"
    /\ Calls("GetSize") # {}
    /\ \E n \in Events({"item"}) : "j" \in DOMAIN trace[n].at
    /\ Len(CallsOf(prevTrace)) >= 5

\* C8: EnableHandlers is called if and only if one of IOSTAT=, ERR=, END=,
\* EOR=, IOMSG= is present: then exactly once, directly after the begin
\* call and so before every specifier and item call, with the five flags in
\* the order IOSTAT, ERR, END, EOR, IOMSG; never for PRINT.
C8_EnableHandlers ==
    LET present(x) == B2I(x \in Range(stmt.specs))
        any == Range(stmt.specs) \cap CondSpecs # {}
    IN /\ Cardinality(Events({"enable"})) <= 1
       /\ \A n \in Events({"enable"}) :
              /\ any
              /\ stmt.kind \notin {"PRINT", "INQUIRE_IOLENGTH"}
              /\ n > 1
              /\ trace[n - 1].cls = "begin"
              /\ trace[n].cookie = trace[n - 1].res
              /\ trace[n].flags = <<present("IOSTAT"), present("ERR"),
                                    present("END"), present("EOR"),
                                    present("IOMSG")>>
       /\ \A n \in Events({"begin"}) :
              any /\ n < Len(trace) => trace[n + 1].cls = "enable"

C8_Witness ==
    /\ pc = "done"
    /\ stmt.kind = "READ"
    /\ \E n \in Events({"enable"}) : trace[n].flags = <<0, 0, 1, 0, 0>>
    /\ Events({"item"}) # {}

DeferredQueries == Calls("GetSize") \cup Calls("GetAsynchronousId")

\* C9: GetSize and GetAsynchronousId are not called while the specifiers
\* are threaded: they are called after every item call and before the end
\* call, once for each SIZE= and ID= of a statement that made its begin
\* call, whatever the flag.
C9_QueriesAfterTransfer ==
    /\ \A q \in DeferredQueries :
           /\ \A n \in Events({"spec", "item"}) : n < q
           /\ \A n \in Events({"end"}) : q < n
    /\ pc = "done" /\ Events({"begin"}) # {} =>
           /\ "SIZE" \in Range(stmt.specs) =>
                  Cardinality(Calls("GetSize")) = 1
           /\ "ID" \in Range(stmt.specs) =>
                  Cardinality(Calls("GetAsynchronousId")) = 1

C9_Witness ==
    /\ pc = "done"
    /\ Failed # {}
    /\ hasErrorConditionSpec(csiOf(stmt))
    /\ Calls("GetSize") # {}
    /\ Calls("GetAsynchronousId") # {}

\* C10 as stated: the status of the end call is handed back to the caller
\* for every statement kind and every set of condition specifiers.
C10_StatusAlwaysReturned ==
    pc # "lower" => ir.ret # NULL

\* C10 amended: the status is handed back to the caller if and only if one
\* of IOSTAT=, ERR=, END=, EOR= is present (never for PRINT); it is then the
\* status of the end call, or the status of the unit range check if the
\* unit was out of range.
C10_StatusReturnedIffChecked ==
    pc # "lower" =>
        /\ ir.ret # NULL <=> Range(stmt.specs) \cap CheckingSpecs # {}
        /\ pc = "done" /\ ir.ret # NULL =>
               \E n \in Events({"end", "check"}) :
                   /\ trace[n].cls = "check" => trace[n].res # 0
                   /\ env[ir.ret] = trace[n].res

C10_Witness ==
    /\ pc = "done"
    /\ stmt.kind = "READ"
    /\ Range(stmt.specs) \cap CondSpecs = {"EOR"}
    /\ ir.ret # NULL
    /\ env[ir.ret] = 1

\* The step that stores into the IOSTAT variable.
StoresIoStat ==
    /\ AtOp
    /\ CurOp.k = "store"
    /\ CurOp.var = "IOSTAT"
    /\ stack' = Advance(stack)

\* C11: with IOSTAT= the status variable is stored exactly once per
\* execution, after every runtime call of the statement (the end call
\* included, when there is one), and the value stored is the result of
\* EndIoStatement if the unit needed no range check or passed it, and the
\* non-zero status of the range check if the unit was rejected; without
\* IOSTAT= the variable is never stored.
C11_IoStatStoredOnce ==
    /\ [](pc = "done" /\ csiOf(stmt).ioStat =>
             /\ "IOSTAT" \in DOMAIN store
             /\ IF UnitRejected
                THEN \E n \in Events({"check"}) :
                        trace[n].res # 0 /\ store["IOSTAT"] = trace[n].res
                ELSE \E n \in Events({"end"}) :
                        n = Len(trace) /\ store["IOSTAT"] = trace[n].res)
    /\ []("IOSTAT" \in DOMAIN store => csiOf(stmt).ioStat)
    /\ [][StoresIoStat => "IOSTAT" \notin DOMAIN store]_vars
    /\ [][("IOSTAT" \in DOMAIN store) => trace' = trace \/ round' # round]_vars

C11_Witness ==
    /\ pc = "done"
    /\ stmt.unitWidth = 64
    /\ UnitRejected
    /\ "IOSTAT" \in DOMAIN store
    /\ store["IOSTAT"] = 1
    /\ ir.ret # NULL

\* C12 as stated: with IOSTAT= or ERR=, a unit that fails the range check
\* makes control skip to the end call of the statement: no setter, item or
\* query call is executed, and the end call is.
C12_RejectedUnitReachesEndCall ==
    pc = "done" /\ hasErrorConditionSpec(csiOf(stmt)) /\ UnitRejected =>
        /\ Events({"spec", "item", "query"}) = {}
        /\ Events({"end"}) # {}

\* C12 amended: with IOSTAT= or ERR=, a unit that fails the range check
\* makes control skip every other call of the statement, the begin call,
\* GetIoMsg and the end call included, and the status of the check is the
\* final status; a unit that passes it has all the statement's calls made in
\* the nested region of the check's fir.if, which is left before the final
\* status is stored or returned.
C12_RejectedUnitSkipsAllCalls ==
    hasErrorConditionSpec(csiOf(stmt)) =>
        \A n \in Events({"check"}) :
            /\ n = 1
            /\ trace[n].res # 0 =>
                   /\ Len(trace) = 1
                   /\ pc = "done" => env[ir.ret] = trace[n].res
            /\ trace[n].res = 0 =>
                   /\ \A m \in 2..Len(trace) : trace[m].blk # trace[n].blk
                   /\ pc = "done" =>
                          /\ trace[Len(trace)].cls = "end"
                          /\ env[ir.ret] = trace[Len(trace)].res
                          /\ ir.parent[trace[Len(trace)].blk] = ir.bigUnitIfOp

C12_Witness ==
    /\ pc = "done"
    /\ stmt.kind = "OPEN"
    /\ stmt.unitWidth = 64
    /\ Range(stmt.specs) = {"UNIT", "ERR", "FILE"}
    /\ UnitRejected
    /\ Len(trace) = 1
    /\ env[ir.ret] = 1

\* C13: with IOMSG= every EndIoStatement call is directly preceded by the
\* one GetIoMsg call of the execution, made on the same cookie, whether the
\* statement's calls succeeded or failed; without IOMSG= GetIoMsg is never
\* called.
C13_IoMsgBeforeEnd ==
    /\ Cardinality(Calls("GetIoMsg")) <= 1
    /\ \A g \in Calls("GetIoMsg") :
           /\ csiOf(stmt).ioMsg
           /\ trace[g].item = "IOMSG"
           /\ g < Len(trace) => trace[g + 1].cls = "end"
           /\ pc = "done" => g < Len(trace)
    /\ csiOf(stmt).ioMsg =>
           \A e \in Events({"end"}) :
               /\ e > 1
               /\ trace[e - 1].fn = "GetIoMsg"
               /\ trace[e - 1].cookie = trace[e].cookie
               /\ trace[e - 1].blk = trace[e].blk

C13_Witness ==
    /\ pc = "done"
    /\ Range(stmt.specs) \cap CondSpecs = {"IOMSG"}
    /\ Calls("GetIoMsg") = {Len(trace) - 1}
    /\ trace[Len(trace)].cls = "end"
    /\ trace[Len(trace)].res = 1

InternalArrayBegins ==
    {"BeginInternalArrayListInput", "BeginInternalArrayListOutput",
     "BeginInternalArrayFormattedInput", "BeginInternalArrayFormattedOutput"}

InternalScalarBegins ==
    {"BeginInternalListInput", "BeginInternalListOutput",
     "BeginInternalFormattedInput", "BeginInternalFormattedOutput"}

\* C14: the begin call of an internal READ or WRITE takes a descriptor as its
\* first argument if and only if the unit variable is an array or is not of
\* the default character kind, and a buffer address and length otherwise;
\* its entry point is a BeginInternalArray* one exactly in the first case and
\* a BeginInternalFormatted* / BeginInternalList* one exactly in the second.
C14_InternalDescriptorForm ==
    stmt.kind \in {"READ", "WRITE"} /\ stmt.io = "internal" =>
        \A b \in Events({"begin"}) :
            LET args == trace[b].flags
                needsDesc == \/ stmt.unitVar.rank > 0
                             \/ stmt.unitVar.w # DefaultCharBits
            IN /\ args[1] = "descriptor" <=> needsDesc
               /\ SubSeq(args, 1, 2) = <<"buffer", "bufferLength">>
                      <=> ~needsDesc
               /\ trace[b].fn \in InternalArrayBegins
                      <=> args[1] = "descriptor"
               /\ trace[b].fn \in InternalScalarBegins
                      <=> SubSeq(args, 1, 2) = <<"buffer", "bufferLength">>

C14_Witness ==
    /\ pc = "done"
    /\ stmt.kind = "WRITE"
    /\ stmt.io = "internal"
    /\ stmt.unitVar.rank = 0
    /\ stmt.unitVar.w = 32
    /\ \E b \in Events({"begin"}) :
           /\ trace[b].fn = "BeginInternalArrayFormattedOutput"
           /\ trace[b].flags[1] = "descriptor"

\* The item of a transfer of one item.
TheItem == stmt.items[1]
OneItem == Len(stmt.items) = 1 /\ TheItem.k = "item"

\* The scalar types with an output entry point of their own.
TypedOutputs ==
    {<<"logical", 8, "OutputLogical">>, <<"logical", 16, "OutputLogical">>,
     <<"logical", 32, "OutputLogical">>, <<"logical", 64, "OutputLogical">>,
     <<"i1", 1, "OutputLogical">>,
     <<"int", 8, "OutputInteger8">>, <<"int", 16, "OutputInteger16">>,
     <<"int", 32, "OutputInteger32">>, <<"int", 64, "OutputInteger64">>,
     <<"int", 128, "OutputInteger128">>,
     <<"real", 32, "OutputReal32">>, <<"real", 64, "OutputReal64">>,
     <<"complex", 32, "OutputComplex32">>,
     <<"complex", 64, "OutputComplex64">>,
     <<"char", 8, "OutputAscii">>}

\* C15: the entry point called for an output item is determined by the type
\* of the item and by whether the transfer is formatted: OutputDerivedType
\* for a derived type or an array of one, also when unformatted; else
\* OutputDescriptor when unformatted; else OutputLogical for a logical,
\* OutputInteger<w> for a signed integer of 8, 16, 32, 64 or 128 bits,
\* OutputReal<w> for a real of 32 or 64 bits, OutputComplex<w> for a complex
\* of 32- or 64-bit parts, OutputAscii for a character scalar of the default
\* 8-bit kind; OutputDescriptor for everything else.
C15_OutputEntryByType ==
    stmt.kind = "WRITE" /\ OneItem =>
        \A n \in Events({"item"}) :
            LET ty == TheItem.ty
                typed == {t \in TypedOutputs :
                             ty.rank = 0 /\ t[1] = ty.cat /\ t[2] = ty.w}
            IN trace[n].fn =
                  IF ty.cat = "derived" THEN "OutputDerivedType"
                  ELSE IF stmt.format = "none" THEN "OutputDescriptor"
                  ELSE IF typed # {} THEN (CHOOSE t \in typed : TRUE)[3]
                  ELSE "OutputDescriptor"

C15_Witness ==
    /\ pc = "done"
    /\ stmt \in ItemTypeStmts
    /\ stmt.kind = "WRITE"
    /\ stmt.format = "fmt"
    /\ TheItem.ty.cat = "derived"
    /\ TheItem.ty.rank = 1
    /\ \E n \in Events({"item"}) : trace[n].fn = "OutputDerivedType"

\* The names of the entry points after "Output" / "Input".
EntrySuffixes ==
    {"DerivedType", "Descriptor", "Logical", "Integer8", "Integer16",
     "Integer32", "Integer64", "Integer128", "Real32", "Real64", "Complex32",
     "Complex64", "Ascii"}

\* The input entry point is the counterpart of the output entry point.
Mirrors(inFn, outFn) ==
    \E x \in EntrySuffixes : outFn = "Output" \o x /\ inFn = "Input" \o x

\* C16 as stated: an unsigned integer is read through InputDescriptor, no
\* 128-bit integer input entry is called, and for every other type the
\* input entry is the counterpart of the output entry of the same type.
C16_InputMirrorsOutput ==
    stmt.kind = "READ" /\ OneItem =>
        \A n \in Events({"item"}) :
            LET ty == TheItem.ty
                outFn == getOutputFunc(ty, stmt.format # "none")
            IN IF ty.cat = "uint" THEN trace[n].fn = "InputDescriptor"
               ELSE IF ty.cat = "int" /\ ty.w = 128
                    THEN trace[n].fn # "InputInteger128"
               ELSE Mirrors(trace[n].fn, outFn)

\* C16 amended: an unsigned integer is read through InputDescriptor; a
\* signed integer scalar of any width, 128 bits included, is read in a
\* formatted transfer through the one entry InputInteger, which takes the
\* address of the item and its byte size; for every other type the input
\* entry is the counterpart of the output entry of the same type.
C16_InputMirrorsOutputButIntegers ==
    stmt.kind = "READ" /\ OneItem =>
        \A n \in Events({"item"}) :
            LET ty == TheItem.ty
                outFn == getOutputFunc(ty, stmt.format # "none")
            IN IF ty.cat = "uint" THEN trace[n].fn = "InputDescriptor"
               ELSE IF ty.cat = "int" /\ ty.rank = 0 /\ stmt.format # "none"
                    THEN /\ trace[n].fn = "InputInteger"
                         /\ trace[n].flags = <<"address", "kind">>
               ELSE Mirrors(trace[n].fn, outFn)

C16_Witness ==
    /\ pc = "done"
    /\ stmt \in ItemTypeStmts
    /\ stmt.kind = "READ"
    /\ stmt.format = "fmt"
    /\ TheItem.ty = Ty("int", 128, 0, TRUE)
    /\ \E n \in Events({"item"}) : trace[n].fn = "InputInteger"

\* The item-transfer calls emitted for the statement.
ItemOps ==
    {p \in UNION {{<<b, i>> : i \in 1..Len(ir.blocks[b])} :
                     b \in 1..Len(ir.blocks)} :
        /\ ir.blocks[p[1]][p[2]].k = "call"
        /\ ir.blocks[p[1]][p[2]].cls = "item"}

\* C17: a WRITE of one default-kind 32-bit integer to an external formatted
\* unit emits one item-transfer call, which is executed once: a call of
\* OutputInteger32 whose arguments are the cookie of the begin call and the
\* value of the item converted to the type of the parameter.
C17_Integer32Write ==
    /\ stmt.kind = "WRITE" /\ OneItem /\ TheItem.ty = INT32
    /\ stmt.format = "fmt" /\ stmt.io = "external" /\ stmt.specs = <<>>
    /\ pc # "lower"
    => /\ Cardinality(ItemOps) = 1
       /\ Cardinality(Events({"item"})) <= 1
       /\ \A n \in Events({"item"}) :
              /\ trace[n].fn = "OutputInteger32"
              /\ trace[n].flags = <<"value">>
              /\ trace[n].item = TheItem.name
              /\ \E b \in Events({"begin"}) :
                     b < n /\ trace[n].cookie = trace[b].res
       /\ pc = "done" => Cardinality(Events({"item"})) = 1

C17_Witness ==
    /\ pc = "done"
    /\ stmt.kind = "WRITE" /\ OneItem /\ TheItem.ty = INT32
    /\ stmt.format = "fmt" /\ stmt.io = "external" /\ stmt.specs = <<>>
    /\ \E n \in Events({"item"}) :
           trace[n].fn = "OutputInteger32" /\ trace[n].flags = <<"value">>

\* C18: a formatted WRITE of one complex scalar with 64-bit parts emits one
\* item-transfer call, which is executed once: a call of OutputComplex64
\* whose arguments are the cookie, the real part and the imaginary part, in
\* this order; no call of a real-valued output entry is made.
C18_Complex64Write ==
    /\ stmt.kind = "WRITE" /\ OneItem
    /\ TheItem.ty.cat = "complex" /\ TheItem.ty.w = 64 /\ TheItem.ty.rank = 0
    /\ stmt.format = "fmt" /\ stmt.specs = <<>>
    /\ pc # "lower"
    => /\ Cardinality(ItemOps) = 1
       /\ Cardinality(Events({"item"})) <= 1
       /\ \A n \in Events({"item"}) :
              /\ trace[n].fn = "OutputComplex64"
              /\ trace[n].flags = <<"realPart", "imagPart">>
              /\ \E b \in Events({"begin"}) :
                     b < n /\ trace[n].cookie = trace[b].res
       /\ Calls("OutputReal64") = {}
       /\ pc = "done" => Cardinality(Events({"item"})) = 1

C18_Witness ==
    /\ pc = "done"
    /\ stmt.kind = "WRITE" /\ OneItem
    /\ TheItem.ty = Ty("complex", 64, 0, TRUE)
    /\ stmt.format = "fmt" /\ stmt.specs = <<>>
    /\ \E n \in Events({"item"}) :
           /\ trace[n].fn = "OutputComplex64"
           /\ trace[n].flags = <<"realPart", "imagPart">>

\* ------------------------------------------------------- NAMELIST groups
Requests == {n \in 1..Len(trace) : trace[n].cls = "group"}

\* The operations that build a description in the requesting function.
BuildOps(r) ==
    {n \in 1..Len(r.ops) :
        r.ops[n].k \in {"alloca", "member_desc", "store_desc"}}

\* C19: requesting the description of the same NAMELIST group twice in one
\* translation unit returns the same memoized address both times, and the
\* second request emits no second set of definitions (group record, item
\* list, descriptors of the members).
C19_GroupRequestIdempotent ==
    \A m, n \in Requests :
        m < n => /\ trace[n].addr = trace[m].addr
                 /\ trace[n].defs = <<>>
                 /\ BuildOps(trace[n]) = {}

\* C19 (amended): once a request has built the group as a global, every
\* later request returns the address of that global and emits nothing but
\* the address operation; a group built as stack data is registered under
\* no name, and the next request builds it again at another address.
C19_StaticGroupRequestIdempotent ==
    \A m, n \in Requests :
        m < n =>
            /\ trace[m].addr[1] = "global" =>
                    /\ trace[n].addr = trace[m].addr
                    /\ trace[n].defs = <<>>
                    /\ Len(trace[n].ops) = 1
            /\ trace[m].addr[1] = "stack" /\ n = m + 1 =>
                    /\ trace[n].addr # trace[m].addr
                    /\ \/ BuildOps(trace[n]) # {}
                       \/ stmt.group.name \in Range(trace[n].defs)

C19_Witness ==
    /\ pc = "lower"
    /\ Len(trace) = 3
    /\ \A n \in 1..3 : trace[n].cls = "group"
    /\ trace[1].addr[1] = "stack"
    /\ trace[2].addr[1] = "global"
    /\ trace[3].addr = trace[2].addr
    /\ trace[3].scope # trace[2].scope

\* Some variable of the group is not globally addressable.
HasLocalObject ==
    \E n \in 1..Len(stmt.group.objects) : ~stmt.group.objects[n].isGlobal

\* C20: a request builds the NAMELIST group as stack data, registering
\* nothing under the name of the group, if and only if a variable of the
\* group is not globally addressable or a defined I/O procedure of the
\* requesting scope is a dummy procedure or a procedure pointer; otherwise
\* the group record and its list are each defined exactly once as globals
\* named after the group.
C20_LocalGroupIffLocalPart ==
    \A n \in Requests :
        LET r == trace[n]
            local == \/ HasLocalObject
                     \/ r.scope.procs \cap {"dummy", "pointer"} # {}
            Count(name) == Cardinality({d \in 1..Len(ir.defs) :
                                           ir.defs[d] = name})
        IN IF local
           THEN /\ r.addr[1] = "stack"
                /\ BuildOps(r) # {}
                /\ stmt.group.name \notin Range(r.defs)
           ELSE /\ r.addr = <<"global", stmt.group.name, 0>>
                /\ BuildOps(r) = {}
                /\ Count(stmt.group.name) = 1
                /\ Count(stmt.group.name \o ".list") = 1

\* -------------------------------------------------- defined IO tables
TableRequests == {n \in 1..Len(trace) : trace[n].cls = "table"}

DefaultTableName == "default.nonTbpDefinedIoTable"

\* C21: getNonTbpDefinedIoTableAddr never returns a null address; when no
\* defined I/O procedure is visible in the scope it returns the address of
\* the one scope-independent default table (item count 0, null item list,
\* ignoreNonTbpEntries true), and repeated requests return that same table
\* without defining it again.
C21_DefaultTableShared ==
    \A n \in TableRequests :
        LET r == trace[n]
        IN /\ r.addr[1] \in {"global", "stack"}
           /\ r.addr[1] = "stack" => r.addr[3] # NULL
           /\ r.scope.procs = {} =>
                 /\ r.addr = <<"global", DefaultTableName, 0>>
                 /\ <<DefaultTableName,
                      [items |-> 0, list |-> "null",
                       ignoreNonTbpEntries |-> TRUE]>> \in ir.init
                 /\ Cardinality({d \in 1..Len(ir.defs) :
                                    ir.defs[d] = DefaultTableName}) = 1
                 /\ \A m \in TableRequests :
                       m < n /\ trace[m].scope.procs = {} =>
                           /\ r.addr = trace[m].addr
                           /\ r.defs = <<>>

C21_Witness ==
    /\ Len(trace) = 3
    /\ trace[1].cls = "table" /\ trace[1].scope.procs = {}
    /\ trace[1].defs = <<DefaultTableName>>
    /\ trace[2].cls = "table" /\ trace[2].scope.procs = {"dummy"}
    /\ trace[3].cls = "table" /\ trace[3].scope.procs = {}
    /\ trace[3].addr = trace[1].addr

\* ------------------------------------------------------------- guards
RECURSIVE FlagGuards(_)
\* The fir.if operations on a success flag that enclose block b, the fir.if
\* of the unit range check aside.
FlagGuards(b) ==
    IF ir.parent[b] = <<0, 0>>
    THEN {}
    ELSE (IF ParentOp(ir, b).k = "if" /\ ir.parent[b] # ir.bigUnitIfOp
          THEN {ParentOp(ir, b)} ELSE {})
         \cup FlagGuards(ir.parent[b][1])

AllOps == UNION {Range(ir.blocks[b]) : b \in 1..Len(ir.blocks)}
AllGuards == UNION {FlagGuards(b) : b \in 1..Len(ir.blocks)}

\* The values that are success flags: results of setter and item calls, of
\* guards, and the flag a checked loop carries and yields.
FlagValues ==
    {op.r : op \in {o \in AllOps : \/ o.k = "if"
                                   \/ o.k = "call" /\ o.cls \in {"spec", "item"}}}
    \cup UNION {{op.it, op.r1} : op \in {o \in AllOps : o.k = "iterate_while"}}
    \cup {op.r : op \in {o \in AllOps : o.k = "elements_while"}}

LoopFlags == {op.it : op \in {o \in AllOps : o.k = "iterate_while"}}

OkCalls == {o \in AllOps : o.k = "call" /\ o.cls \in {"spec", "item"}}

\* The blocks of the ok-returning call that was emitted first.
FirstOkCalls ==
    {b \in 1..Len(ir.blocks) :
        \E o \in OkCalls \cap Range(ir.blocks[b]) :
            \A p \in OkCalls : o.r <= p.r}

GuardsWellFormed ==
    /\ ~hasTransferConditionSpec(csiOf(stmt)) => AllGuards = {}
    /\ \A g \in AllGuards : g.cond \in FlagValues

\* C22: the first ok-returning call of a statement is executed
\* unconditionally (no guard on a flag encloses it); a guard is opened
\* only when checking is enabled and a prior success flag exists; when
\* checking is disabled no guard is opened at all.
C22_FirstCallUnguarded ==
    pc # "lower" =>
        /\ GuardsWellFormed
        /\ \A b \in FirstOkCalls : FlagGuards(b) = {}

\* C22 (amended): as C22, but the first ok-returning call of a statement
\* may lie in the body of a checked implied-do loop, where it is guarded
\* by the flag the loop carries and by nothing else.
C22_FirstCallGuardedByLoopFlagOnly ==
    pc # "lower" =>
        /\ GuardsWellFormed
        /\ \A b \in FirstOkCalls :
              \A g \in FlagGuards(b) : g.cond \in LoopFlags

C22_Witness ==
    /\ pc = "done"
    /\ stmt.kind = "WRITE" /\ stmt.specs = <<"IOSTAT">>
    /\ Len(stmt.items) = 2 /\ stmt.items[1].k = "do"
    /\ \E b \in FirstOkCalls :
          /\ FlagGuards(b) # {}
          /\ \E n \in Events({"item"}) : trace[n].blk = b
    /\ \E n \in Events({"item"}) : trace[n].blk \notin FirstOkCalls

\* ------------------------------------------------------ assigned formats
SelectOps == {o \in AllOps : o.k = "select_case"}

\* The parenthesized text of the FORMAT statements of the program unit.
FormatBodies ==
    (10 :> <<"(", "I", ")">>) @@ (20 :> <<"(", "(", "A", ")", ")">>)

\* C23: for a format given by an integer variable holding an assigned
\* label, the lowering builds a multi-way branch with exactly one arm per
\* label assigned to the variable; the arm of a FORMAT statement yields the
\* parenthesized text of the statement and its length, the arm of another
\* statement yields a null address and length 0, and every other value of
\* the variable reaches the fatal error, after which no begin call is made.
C23_AssignedFormatSelect ==
    pc # "lower" /\ stmt.format = "assigned" =>
        /\ Cardinality(SelectOps) = 1
        /\ \A o \in SelectOps :
              /\ Len(o.cases) = Cardinality(stmt.labels)
              /\ {o.cases[n].label : n \in 1..Len(o.cases)} = stmt.labels
              /\ \A n \in 1..Len(o.cases) :
                    LET c == o.cases[n]
                    IN IF c.label \in DOMAIN FormatBodies
                       THEN /\ c.ref = FormatBodies[c.label]
                            /\ c.len = Len(FormatBodies[c.label])
                       ELSE c.ref = <<>> /\ c.len = 0
              /\ Events({"fatal"}) # {} =>
                    /\ env[o.r] \notin stmt.labels
                    /\ pc = "crash"
                    /\ Events({"begin"}) = {}
              /\ Events({"begin"}) # {} =>
                    /\ env[o.r] \in stmt.labels
                    /\ \E n \in 1..Len(o.cases) :
                          /\ o.cases[n].label = env[o.r]
                          /\ env[o.len] = o.cases[n].len
                          /\ (env[o.buff] = 0) = (o.cases[n].ref = <<>>)

C23_Witness ==
    /\ pc = "crash"
    /\ stmt.format = "assigned"
    /\ stmt.labels = {10, 30}
    /\ Events({"fatal"}) # {}
    /\ \E o \in SelectOps : env[o.r] = 20

\* ------------------------------------------------------ vector subscripts
HasVector == stmt \in VectorStmts
VectorOf(items) == CHOOSE it \in Range(items) : it.k = "vector"
TheVector ==
    IF stmt.items[1].k = "do" THEN VectorOf(stmt.items[1].items)
                              ELSE VectorOf(stmt.items)
VecEvents == {n \in Events({"item"}) : trace[n].item = "v"}
SamePass(m, n) == m \in VecEvents /\ m < n /\ trace[m].at = trace[n].at
ElementLoops == {o \in AllOps : o.k \in {"elements_do", "elements_while"}}

\* C24: for a READ item with a vector subscript each selected element
\* produces exactly one input call, in element order; with checking the
\* iteration stops at the first element whose call returns false, and the
\* result of the loop is the flag of the statement from then on, the flag
\* being initialised to true if there was none.
C24_VectorSubscriptElements ==
    HasVector /\ pc # "lower" =>
        LET checked == hasTransferConditionSpec(csiOf(stmt))
        IN /\ \A n \in VecEvents :
                 /\ trace[n].fn = getInputFunc(TheVector.ty, TRUE)
                 /\ trace[n].elem =
                        1 + Cardinality({m \in VecEvents : SamePass(m, n)})
                 /\ trace[n].elem <= TheVector.n
                 /\ checked =>
                        \A m \in VecEvents : SamePass(m, n) => trace[m].res = 1
                 /\ checked /\ trace[n].res = 0 =>
                        \A m \in Events({"item"}) : m <= n
           /\ pc = "done" /\ (checked => Failed = {}) =>
                 Cardinality(VecEvents) =
                     TheVector.n * (IF stmt.items[1].k = "do" THEN 2 ELSE 1)
           /\ \A o \in ElementLoops :
                 /\ (o.k = "elements_while") = checked
                 /\ checked /\ stmt.items[1].k = "vector" =>
                        \E c \in AllOps :
                            c.k = "const" /\ c.r = o.init /\ c.val = 1
                 /\ checked =>
                        \A b \in 1..Len(ir.blocks) :
                            (\E c \in Range(ir.blocks[b]) :
                                 c.k = "call" /\ c.item = "b")
                            => \E g \in FlagGuards(b) : g.cond = o.r

C24_Witness ==
    /\ pc = "done"
    /\ HasVector
    /\ stmt.specs = <<"IOSTAT">>
    /\ Len(stmt.items) = 2 /\ stmt.items[1].k = "vector"
    /\ TheVector.n = 2
    /\ \E n \in VecEvents : trace[n].elem = 1 /\ trace[n].res = 0
    /\ Cardinality(Events({"item"})) = 1

\* ---------------------------------------------------- INQUIRE(IOLENGTH=)
\* The operations of a statement that transfer its item list.
IsItemOp(o) ==
    /\ o.k = "call" => o.cls = "item"
    /\ o.k = "store" => o.var \notin {"IOLENGTH", "IOSTAT"}

ItemPart(L) == [b \in 1..Len(L.blocks) |-> SelectSeq(L.blocks[b], IsItemOp)]

\* The WRITE of the same items, unformatted and without specifiers.
PlainWrite == Stmt("WRITE", <<>>, 0, "none", "external", stmt.items)

\* C25: INQUIRE by IOLENGTH emits, in order, BeginInquireIoLength, one
\* unformatted and unguarded output call per item exactly as an unformatted
\* WRITE without checking does, GetIoLength, the store of the length to the
\* IOLENGTH variable, and EndIoStatement; it emits no EnableHandlers call
\* and no specifier call.
C25_InquireIoLength ==
    stmt.kind = "INQUIRE_IOLENGTH" /\ pc # "lower" =>
        /\ ItemPart(ir) = ItemPart(genDataTransferStmt(PlainWrite, FALSE, TRUE))
        /\ \A o \in AllOps : o.k \notin {"if", "iterate_while"}
        /\ \A o \in OkCalls :
              \E ty \in {INT32, LOGICAL32} : o.fn = getOutputFunc(ty, FALSE)
        /\ Events({"enable", "spec", "check", "iomsg"}) = {}
        /\ \A n \in 1..Len(trace) :
              /\ trace[n].cls = "begin" <=> n = 1
              /\ n = 1 => trace[n].fn = "BeginInquireIoLength"
              /\ trace[n].cls = "query" =>
                    /\ trace[n].fn = "GetIoLength"
                    /\ \A m \in 2..(n - 1) : trace[m].cls = "item"
              /\ trace[n].cls = "end" =>
                    /\ trace[n].fn = "EndIoStatement"
                    /\ n = Len(trace) /\ n >= 3
                    /\ trace[n - 1].cls = "query"
                    /\ "IOLENGTH" \in DOMAIN store
                    /\ store["IOLENGTH"] = trace[n - 1].res
        /\ pc = "done" => trace[Len(trace)].cls = "end"

C25_Witness ==
    /\ pc = "done"
    /\ stmt.kind = "INQUIRE_IOLENGTH"
    /\ Len(stmt.items) = 3
    /\ \E n \in Failed : n + 1 \in Events({"item"})
    /\ store["IOLENGTH"] = 1

\* ------------------------------------------------------------------ C26
\* The WRITE statement to the default unit with the format and the items of
\* the statement and no other control specifier.
WriteLikePrint == [stmt EXCEPT !.kind = "WRITE", !.specs = <<>>, !.unitWidth = 0]

\* C26: a PRINT statement is lowered like the WRITE statement with the same
\* format and items and no other control specifier: the operations are the
\* same, the begin call takes the default output unit before the source
\* position, there is no EnableHandlers call, no specifier call, no guard and
\* no size or id query, every item call is executed whatever the earlier
\* ones returned, and the statement ends with EndIoStatement.
C26_PrintLikeWrite ==
    stmt.kind = "PRINT" /\ pc # "lower" =>
        /\ ir.blocks = genDataTransferStmt(WriteLikePrint, FALSE, TRUE).blocks
        /\ \A o \in AllOps : o.k \notin {"if", "iterate_while"}
        /\ Events({"enable", "spec", "check", "iomsg", "query"}) = {}
        /\ \A n \in Events({"begin"}) :
              /\ n = 1
              /\ trace[n].fn = getBeginDataTransferFunc(FALSE, TRUE,
                                    stmt.format = "star", FALSE, FALSE)
              /\ LET args == trace[n].flags
                 IN SubSeq(args, Len(args) - 2, Len(args))
                        = <<"DefaultOutputUnit", "sourceFile", "sourceLine">>
        /\ \A n \in Events({"end"}) :
              /\ trace[n].fn = "EndIoStatement"
              /\ n = Len(trace)
              /\ \A m \in 2..(n - 1) : trace[m].cls \in {"item", "fatal"}
        /\ pc = "done" => trace[Len(trace)].cls = "end"

C26_Witness ==
    /\ pc = "done"
    /\ stmt.kind = "PRINT"
    /\ stmt.format = "fmt"
    /\ \E n \in Failed : trace[n].cls = "item" /\ trace[n + 1].cls = "end"

\* ------------------------------------------------------------------ C27
ConditionSpecInfos ==
    [ioStat : BOOLEAN, ioMsg : BOOLEAN, hasErr : BOOLEAN, hasEnd : BOOLEAN,
     hasEor : BOOLEAN]

\* C27: after the specifier list of the statement is scanned, each field of
\* the condition record is set if and only if a specifier of its kind occurs
\* in the list; hasErrorConditionSpec is IOSTAT= or ERR=,
\* hasTransferConditionSpec is that or END= or EOR=, hasAnyConditionSpec is
\* that or IOMSG=; for every record the first query implies the second and
\* the second the third; handlers are enabled only if the third holds.
C27_ConditionQueries ==
    LET csi == csiOf(stmt)
        has(x) == x \in Range(stmt.specs)
    IN /\ csi.ioStat <=> has("IOSTAT")
       /\ csi.ioMsg <=> has("IOMSG")
       /\ csi.hasErr <=> has("ERR")
       /\ csi.hasEnd <=> has("END")
       /\ csi.hasEor <=> has("EOR")
       /\ hasErrorConditionSpec(csi) <=> has("IOSTAT") \/ has("ERR")
       /\ hasTransferConditionSpec(csi)
              <=> hasErrorConditionSpec(csi) \/ has("END") \/ has("EOR")
       /\ hasAnyConditionSpec(csi)
              <=> hasTransferConditionSpec(csi) \/ has("IOMSG")
       /\ \A c \in ConditionSpecInfos :
              /\ hasErrorConditionSpec(c) => hasTransferConditionSpec(c)
              /\ hasTransferConditionSpec(c) => hasAnyConditionSpec(c)
       /\ Events({"enable"}) # {} => hasAnyConditionSpec(csi)

C27_Witness ==
    /\ pc = "done"
    /\ Len(stmt.specs) >= 2
    /\ hasTransferConditionSpec(csiOf(stmt))
    /\ ~hasErrorConditionSpec(csiOf(stmt))
    /\ stmt.specs[Len(stmt.specs)] \notin CondSpecs
    /\ Events({"enable"}) # {}

\* ------------------------------------------------------------------ C28
CheckOps == {o \in AllOps : o.k = "call" /\ o.cls = "check"}
BeginOps == {o \in AllOps : o.k = "call" /\ o.cls = "begin"}

\* C28: the unit is range-checked, before the begin call, if and only if
\* the type of the unit expression is wider than the runtime's unit
\* parameter, by the 64-bit check for widths up to 64 and by the 128-bit
\* check above; without IOSTAT= and ERR= the check is told not to handle
\* the error, no fir.if is opened on its status, and after a check that
\* rejected the unit no other operation of the statement is executed.
C28_UnitRangeCheck ==
    pc # "lower" =>
        LET wide == stmt.unitWidth > RuntimeUnitWidth
            handled == hasErrorConditionSpec(csiOf(stmt))
        IN /\ Cardinality(CheckOps) = IF wide THEN 1 ELSE 0
           /\ \A o \in CheckOps :
                 /\ o.fn = IF stmt.unitWidth <= 64
                           THEN "CheckUnitNumberInRange64"
                           ELSE "CheckUnitNumberInRange128"
                 /\ o.flags = <<B2I(handled)>>
                 /\ \A b \in BeginOps : o.r < b.r
                 /\ ir.bigUnitIfOp # <<>> <=> handled
                 /\ ~handled => \A g \in AllOps : g.k = "if" => g.cond # o.r + 1
           /\ \A n \in Events({"check"}) :
                 /\ n = 1
                 /\ trace[n].res # 0 /\ ~handled
                        => pc = "crash" /\ Len(trace) = 1
                 /\ trace[n].res = 0 /\ Len(trace) > 1
                        => trace[2].cls = "begin"
           /\ wide /\ Events({"begin"}) # {} => Events({"check"}) # {}

C28_Witness ==
    /\ pc = "crash"
    /\ stmt.unitWidth = 128
    /\ "IOMSG" \in Range(stmt.specs)
    /\ trace[1].fn = "CheckUnitNumberInRange128"
    /\ trace[1].res # 0

\* ------------------------------------------------------------ round trip
\* A value is the list of its bytes, the lowest first; a complex value is the
\* bytes of its real part followed by those of its imaginary part.
Pattern(n, low, mid, high) ==
    [i \in 1..n |-> IF i = n THEN high ELSE IF i = 1 THEN low ELSE mid]

Patterns(n) ==
    {Pattern(n, 0, 0, 0), Pattern(n, 1, 0, 0), Pattern(n, 255, 255, 255),
     Pattern(n, 255, 255, 127), Pattern(n, 0, 0, 128)}

SizeOf(ty) == IF ty.cat = "complex" THEN 2 * (ty.w \div 8) ELSE ty.w \div 8

ValuesOf(ty) ==
    LET n == ty.w \div 8
    IN IF ty.cat = "complex"
       THEN {Pattern(n, 255, 255, 127) \o Pattern(n, 0, 0, 128),
             Pattern(n, 1, 0, 0) \o Pattern(n, 1, 0, 0),
             Pattern(n, 0, 0, 0) \o Pattern(n, 255, 255, 255)}
       ELSE Patterns(n)

\* The numeric types of a fixed width, as scalars.
NumericTypes ==
    {Ty(t[1], t[2], 0, TRUE) :
        t \in ({"int", "uint"} \X {8, 16, 32, 64, 128})
              \cup ({"real", "complex"} \X {16, 32, 64, 80, 128})}

TripItem(name, ty, val) == [k |-> "item", name |-> name, ty |-> ty, val |-> val]

TypedValues == UNION {{<<ty, v>> : v \in ValuesOf(ty)} : ty \in NumericTypes}

\* Item lists of one typed value, alone, before and after another item.
TripLists ==
    UNION {{<<TripItem("a", tv[1], tv[2])>>,
            <<TripItem("a", tv[1], tv[2]),
              TripItem("b", Ty("int", 8, 0, TRUE), <<255>>)>>,
            <<TripItem("a", Ty("real", 64, 0, TRUE), Pattern(8, 255, 255, 127)),
              TripItem("b", tv[1], tv[2])>>} : tv \in TypedValues}

\* A WRITE of numeric items to an internal unit, list-directed or with a
\* format wide enough for its values.
TripStmts ==
    {Stmt("WRITE", <<>>, 0, f, "internal", items) :
        <<f, items>> \in {"star", "fmt"} \X TripLists}

\* The byte size passed with the address of an integer item.
inputKindWord(itemTy) == 4

inputKind(itemTy) == itemTy.w \div 8

\* The text of an integer is its numeral, which does not tell the width of
\* the value it was written from: the bytes without redundant sign bytes.
RECURSIVE CanonSigned(_)
CanonSigned(b) ==
    LET n == Len(b)
    IN IF n > 1 /\ (\/ b[n] = 0 /\ b[n - 1] < 128
                    \/ b[n] = 255 /\ b[n - 1] >= 128)
       THEN CanonSigned(SubSeq(b, 1, n - 1))
       ELSE b

RECURSIVE CanonUnsigned(_)
CanonUnsigned(b) ==
    LET n == Len(b)
    IN IF n > 1 /\ b[n] = 0 THEN CanonUnsigned(SubSeq(b, 1, n - 1)) ELSE b

\* The conversion of a value to k bytes.
ExtendSigned(b, k) ==
    [i \in 1..k |-> IF i <= Len(b) THEN b[i]
                    ELSE IF b[Len(b)] >= 128 THEN 255 ELSE 0]

ExtendUnsigned(b, k) == [i \in 1..k |-> IF i <= Len(b) THEN b[i] ELSE 0]

EntryWidth(fn) ==
    CASE fn = "OutputInteger8" -> 8
      [] fn = "OutputInteger16" -> 16
      [] fn \in {"OutputInteger32", "OutputReal32", "OutputComplex32",
                 "InputReal32", "InputComplex32"} -> 32
      [] fn \in {"OutputInteger64", "OutputReal64", "OutputComplex64",
                 "InputReal64", "InputComplex64"} -> 64
      [] fn = "OutputInteger128" -> 128

Field(cat, prec, num) == [cat |-> cat, prec |-> prec, num |-> num]

\* The field an output entry writes for a value of type ty: the numeral of
\* an integer, or the digits that identify a real of the entry's precision.
\* A typed entry converts the value to the type of its parameter; the
\* descriptor entry takes the type from the descriptor.
RuntimeOutput(fn, ty, val) ==
    CASE fn \in {"OutputInteger8", "OutputInteger16", "OutputInteger32",
                 "OutputInteger64", "OutputInteger128"} ->
            Field("int", 0, CanonSigned(ExtendSigned(val, EntryWidth(fn) \div 8)))
      [] fn \in {"OutputReal32", "OutputReal64"} ->
            Field("real", EntryWidth(fn), ExtendUnsigned(val, EntryWidth(fn) \div 8))
      [] fn \in {"OutputComplex32", "OutputComplex64"} ->
            Field("complex", EntryWidth(fn),
                  ExtendUnsigned(val, 2 * (EntryWidth(fn) \div 8)))
      [] fn = "OutputDescriptor" ->
            CASE ty.cat = "int" -> Field("int", 0, CanonSigned(val))
              [] ty.cat = "uint" -> Field("uint", 0, CanonUnsigned(val))
              [] OTHER -> Field(ty.cat, ty.w, val)

NoInput == [ok |-> FALSE, stored |-> <<>>]
Input(stored) == [ok |-> TRUE, stored |-> stored]

\* What an input entry stores for a field: an integer numeral is stored in
\* kind bytes if it fits; the digits of a real are converted to the
\* precision of the entry.
RuntimeInput(fn, kind, ty, field) ==
    CASE fn = "InputInteger" ->
            IF field.cat = "int" /\ Len(field.num) <= kind
            THEN Input(ExtendSigned(field.num, kind))
            ELSE NoInput
      [] fn \in {"InputReal32", "InputReal64"} ->
            IF field.cat = "real"
            THEN Input(ExtendUnsigned(field.num, EntryWidth(fn) \div 8))
            ELSE NoInput
      [] fn \in {"InputComplex32", "InputComplex64"} ->
            IF field.cat = "complex"
            THEN Input(ExtendUnsigned(field.num, 2 * (EntryWidth(fn) \div 8)))
            ELSE NoInput
      [] fn = "InputDescriptor" ->
            CASE ty.cat = "int" ->
                    IF field.cat = "int" /\ Len(field.num) <= SizeOf(ty)
                    THEN Input(ExtendSigned(field.num, SizeOf(ty)))
                    ELSE NoInput
              [] ty.cat = "uint" ->
                    IF field.cat = "uint" /\ Len(field.num) <= SizeOf(ty)
                    THEN Input(ExtendUnsigned(field.num, SizeOf(ty)))
                    ELSE NoInput
              [] OTHER ->
                    IF field.cat = ty.cat
                    THEN Input(ExtendUnsigned(field.num, SizeOf(ty)))
                    ELSE NoInput

\* The bytes of a variable after stored was written at its address.
Poke(old, stored) ==
    [i \in 1..Len(old) |-> IF i <= Len(stored) THEN stored[i] ELSE old[i]]

ItemNamed(name) ==
    CHOOSE it \in Range(stmt.items) : it.name = name

ItemEvents(tr) == SelectSeqCls(tr, {"item"})

InitTrip ==
    /\ stmt \in TripStmts
    /\ ir = NewBuilder
    /\ pc = "lower"
    /\ stack = <<>>
    /\ env = <<>>
    /\ store = [name \in {it.name : it \in Range(stmt.items)} |->
                   ItemNamed(name).val]
    /\ trace = <<>>
    /\ fails = 0
    /\ loopLog = NoLog
    /\ round = 1
    /\ prevTrace = <<>>

\* A call of the statement with the runtime's effect on the internal unit
\* and on the variables: an output call appends a field to the record, an
\* input call takes the next field of the record written before.
TripCall ==
    /\ AtOp
    /\ CurOp.k = "call"
    /\ LET op == CurOp
           it == ItemNamed(op.item)
           pos == Len(ItemEvents(trace)) + 1
           kind == IF "kind" \in Range(op.flags) THEN inputKind(it.ty) ELSE 0
           event(res, val, text) ==
               [fn |-> op.fn, cls |-> op.cls, item |-> op.item,
                flags |-> op.flags, res |-> res, val |-> val, text |-> text]
       IN IF op.cls # "item"
          THEN /\ trace' = Append(trace, event(1, <<>>, <<>>))
               /\ store' = store
          ELSE IF round = 1
          THEN /\ trace' = Append(trace,
                      event(1, store[op.item],
                            RuntimeOutput(op.fn, it.ty, store[op.item])))
               /\ store' = store
          ELSE LET field == ItemEvents(prevTrace)[pos].text
                   in == RuntimeInput(op.fn, kind, it.ty, field)
               IN /\ trace' = Append(trace,
                         event(B2I(in.ok), in.stored, field))
                  /\ store' = IF in.ok
                              THEN [store EXCEPT ![op.item] =
                                       Poke(@, in.stored)]
                              ELSE store
    /\ stack' = Advance(stack)
    /\ UNCHANGED <<stmt, ir, pc, env, fails, loopLog, round, prevTrace>>

\* The READ of the same item list from the same internal unit follows.
TripRead ==
    /\ pc = "done"
    /\ round = 1
    /\ stmt' = [stmt EXCEPT !.kind = "READ"]
    /\ prevTrace' = trace
    /\ round' = 2
    /\ pc' = "lower"
    /\ ir' = NewBuilder
    /\ stack' = <<>>
    /\ env' = <<>>
    /\ trace' = <<>>
    /\ UNCHANGED <<store, fails, loopLog>>

NextTrip ==
    \/ GenWriteStatement
    \/ TripCall
    \/ Finish
    \/ TripRead
    \/ GenReadStatement

SpecTrip == InitTrip /\ [][NextTrip]_vars

OwnerOf(b) == ir.blocks[ir.parent[b][1]][ir.parent[b][2]]

RECURSIVE WithinBlock(_, _)
\* Block b is the block body or a block nested in it.
WithinBlock(b, body) ==
    b = body \/ (b # 1 /\ WithinBlock(ir.parent[b][1], body))

RECURSIVE DirectlyWithin(_, _)
\* Block b is the block body or a region of a guard directly within it.
DirectlyWithin(b, body) ==
    b = body \/ (b # 1 /\ OwnerOf(b).k = "if"
                       /\ DirectlyWithin(ir.parent[b][1], body))

RECURSIVE EnclosingLoopVars(_)
\* The variables of the implied-do loops around block b.
EnclosingLoopVars(b) ==
    IF b = 1
    THEN {}
    ELSE (IF OwnerOf(b).k \in {"do_loop", "iterate_while"}
          THEN {ir.blocks[b][1].var} ELSE {})
         \cup EnclosingLoopVars(ir.parent[b][1])

\* The item calls executed in the iteration it of a loop.
IterationEvents(it) ==
    {n \in Events({"item"}) :
        /\ WithinBlock(trace[n].blk, it.body)
        /\ \A v \in EnclosingLoopVars(it.body) :
              v \in DOMAIN trace[n].at /\ trace[n].at[v] = it.at[v]}

\* The item calls of a loop body that are not in a loop nested in it.
DirectCalls(body) ==
    UNION {{o \in Range(ir.blocks[b]) : o.k = "call" /\ o.cls = "item"} :
           b \in {b \in 1..Len(ir.blocks) : DirectlyWithin(b, body)}}

\* The success flag an operation defines, NULL if it defines none.
FlagOf(o) ==
    CASE o.k = "call" -> o.r
      [] o.k = "if" -> o.r
      [] o.k = "iterate_while" -> o.r1
      [] o.k = "elements_while" -> o.r
      [] OTHER -> NULL

RECURSIVE LastFlag(_)
\* The flag of the last operation of a list that defines one.
LastFlag(ops) ==
    IF ops = <<>> THEN NULL
    ELSE IF FlagOf(ops[Len(ops)]) # NULL THEN FlagOf(ops[Len(ops)])
    ELSE LastFlag(SubSeq(ops, 1, Len(ops) - 1))

LoopGuards ==
    {g \in AllOps : g.k = "if" /\ EnclosingLoopVars(g.thenB) # {}}

\* C30: in a checked implied-do loop the flag carried after an iteration is
\* true if and only if every item call of the body was executed and every
\* item call executed in the iteration returned true; every guard in the
\* body ends its success region by yielding the flag of the last call, guard
\* or loop in it, also when operations that define no flag follow it, and
\* its failure region yields the false constant and does nothing else.
C30_LoopFlagIsConjunction ==
    pc # "lower" =>
        /\ \A n \in 1..Len(loopLog.iter) :
              LET it == loopLog.iter[n]
              IN it.checked =>
                    (it.ok = 1 <=>
                        /\ \A o \in DirectCalls(it.body) :
                              \E m \in IterationEvents(it) :
                                  trace[m].item = o.item
                        /\ \A m \in IterationEvents(it) : trace[m].res = 1)
        /\ \A g \in LoopGuards :
              LET thenOps == ir.blocks[g.thenB]
                  elseOps == ir.blocks[g.elseB]
              IN /\ thenOps # <<>>
                 /\ Last(thenOps).k = "result"
                 /\ LastFlag(thenOps) # NULL
                 /\ Last(thenOps).vals = <<LastFlag(thenOps)>>
                 /\ Len(elseOps) = 1
                 /\ elseOps[1].k = "result"
                 /\ \E c \in AllOps : /\ c.k = "const"
                                      /\ c.val = 0
                                      /\ elseOps[1].vals = <<c.r>>

\* A READ whose loop body ends with the store that re-extends a LOGICAL, and
\* whose iteration ended with a true flag after both calls succeeded.
C30_Witness ==
    /\ stmt.kind = "READ"
    /\ loopLog.iter # <<>>
    /\ loopLog.iter[1].checked
    /\ loopLog.iter[1].ok = 1
    /\ Cardinality(IterationEvents(loopLog.iter[1])) = 2
    /\ \E g \in LoopGuards :
          LET ops == ir.blocks[g.thenB]
          IN Len(ops) >= 3 /\ ops[Len(ops) - 1].k = "extend"

\* ------------------------------------------------------------------ C31
\* The item calls that failed in the body of a loop nested in a loop.
InnerFailures ==
    {n \in Failed : trace[n].cls = "item" /\ {"i", "j"} \subseteq DOMAIN trace[n].at
                    /\ Cardinality(EnclosingLoopVars(trace[n].blk)) >= 2}

\* C31: with checking, after an item call failed in the body of a loop
\* nested in a loop, no item call is executed any more (no further
\* iteration of either loop, no item after the inner loop), the loop that
\* ended last ended with a false flag, and at the end of the statement both
\* loop variables hold the values of the iteration of the failure.
C31_InnerFailureStopsOuterLoop ==
    hasTransferConditionSpec(csiOf(stmt)) =>
        \A n \in InnerFailures :
            /\ \A m \in Events({"item"}) : m <= n
            /\ pc = "done" =>
                  /\ \A v \in {"i", "j"} : store[v] = trace[n].at[v]
                  /\ loopLog.done # <<>>
                  /\ loopLog.done[1].ok = 0
                  /\ loopLog.done[1].var = "i"
                  /\ loopLog.done[1].final = trace[n].at["i"]
                  /\ loopLog.done[1].stored

C31_Witness ==
    /\ pc = "done"
    /\ stmt \in NestedStmts
    /\ \E n \in InnerFailures :
          /\ trace[n].at["i"] = 2
          /\ trace[n].at["j"] = 2
          /\ \E m \in Events({"item"}) : m < n /\ trace[m].item = "b"

\* ------------------------------------------------------------------ C32
\* The loops of the statement outside every other loop that were emitted in
\* the success region of a guard on the flag: <<loop, guard>>.
GuardedLoops ==
    {<<o, OwnerOf(b)>> :
        <<o, b>> \in {<<o, b>> \in AllOps \X (2..Len(ir.blocks)) :
                         /\ o \in Range(ir.blocks[b])
                         /\ o.k \in {"do_loop", "iterate_while"}
                         /\ EnclosingLoopVars(b) = {}
                         /\ ir.parent[b] # ir.bigUnitIfOp
                         /\ OwnerOf(b).k = "if"}}

\* The calls whose false result is the flag that every later call is
\* guarded on.
StoppingFailures ==
    {n \in Failed : trace[n].cls = "item"
                    \/ hasErrorConditionSpec(csiOf(stmt))}

\* C32: with checking, a loop whose guard found the flag false is skipped as
\* a whole: its lower bound, upper bound and step are not evaluated, it is
\* not entered and has no result, and after a call returned false no
\* control variable is read, no item is transferred and every loop control
\* variable is as it was when the call failed - one that had no value has
\* none.
C32_SkippedLoopWritesNothing ==
    hasTransferConditionSpec(csiOf(stmt)) =>
        /\ pc = "done" =>
              \A lg \in GuardedLoops :
                  env[lg[2].cond] = 0 =>
                      /\ env[lg[1].lb] = 0
                      /\ env[lg[1].ub] = 0
                      /\ env[lg[1].step] = 0
                      /\ env[lg[1].iv] = 0
                      /\ env[lg[1].r] = 0
        /\ \A n \in StoppingFailures :
              /\ \A m \in Events({"item", "eval"}) : m <= n
              /\ LoopSnapshot = trace[n].at

C32_Witness ==
    /\ pc = "done"
    /\ stmt \in BoundStmts
    /\ hasTransferConditionSpec(csiOf(stmt))
    /\ \E n \in StoppingFailures :
          /\ trace[n].item = "a"
          /\ trace[n].at = <<>>
          /\ LoopSnapshot = <<>>
    /\ \E lg \in GuardedLoops : env[lg[2].cond] = 0 /\ env[lg[1].lb] = 0

\* ------------------------------------------------------------------ C33
\* The number of iterations of a loop from lb to ub by step.
TripCount(lb, ub, step) ==
    LET n == IF step > 0 THEN (ub - lb + step) \div step
                         ELSE (lb - ub - step) \div (0 - step)
    IN IF n > 0 THEN n ELSE 0

\* The loop of a statement whose control reads a variable, and the
\* evaluations of an operand of its control.
BoundLoop == stmt.items[2]
Evals(operand) == {n \in Events({"eval"}) : trace[n].fn = operand}

\* The value of an operand of the control where the loop begins: what its
\* evaluation found in the variable, the literal, or 1 for an absent step.
ControlValue(operand) ==
    IF operand \in DOMAIN ControlVars(BoundLoop)
    THEN trace[CHOOSE n \in Evals(operand) : TRUE].res
    ELSE IF operand \in DOMAIN BoundLoop THEN BoundLoop[operand] ELSE 1

\* C33: every operand of the control is evaluated at most once, and once if
\* the loop is reached, after the transfer of the item before the loop and
\* before every transfer of the body; the loop runs with the values found
\* then, an absent step being 1, and without a failure its number of
\* iterations is the trip count of these values, whatever the body leaves
\* in the variables of the control.
C33_ControlEvaluatedOnce ==
    /\ (pc = "done" /\ loopLog.done # <<>> /\ Failed = {}) =>
           DoneLoop.iters = TripCount(DoneLoop.lb, DoneLoop.ub, DoneLoop.step)
    /\ stmt \in BoundStmts =>
           /\ \A operand \in {"lower", "upper", "step"} :
                 /\ Cardinality(Evals(operand)) <= 1
                 /\ Evals(operand) # {} =>
                        operand \in DOMAIN ControlVars(BoundLoop)
                 /\ \A n \in Evals(operand) :
                       /\ trace[n].at = <<>>
                       /\ \E m \in Events({"item"}) :
                             m < n /\ trace[m].item = "a"
                       /\ \A m \in Events({"item"}) :
                             trace[m].item = BoundVar => n < m
           /\ loopLog # NoLog =>
                 \A operand \in DOMAIN ControlVars(BoundLoop) :
                     Evals(operand) # {}
           /\ loopLog.done # <<>> =>
                 /\ DoneLoop.lb = ControlValue("lower")
                 /\ DoneLoop.ub = ControlValue("upper")
                 /\ DoneLoop.step = ControlValue("step")
                 /\ Failed = {} =>
                       Cardinality({m \in Events({"item"}) :
                                       trace[m].item = BoundVar})
                           = DoneLoop.iters

\* The body read a value into the variable of the upper bound that would
\* have ended the loop earlier; the loop ran on to its trip count.
C33_Witness ==
    /\ pc = "done"
    /\ stmt \in BoundStmts
    /\ stmt.kind = "READ"
    /\ Failed = {}
    /\ "upper" \in DOMAIN ControlVars(BoundLoop)
    /\ "step" \notin DOMAIN BoundLoop
    /\ loopLog.done # <<>>
    /\ DoneLoop.iters = MaxUpper
    /\ DoneLoop.step = 1
    /\ store[BoundVar] < DoneLoop.iters
    /\ \E n \in Evals("upper") : trace[n].res = MaxUpper

\* ------------------------------------------------------------------ C34
\* The block an operation was emitted in.
BlockOf(o) == CHOOSE b \in 1..Len(ir.blocks) : o \in Range(ir.blocks[b])

\* The specifier and item calls emitted outside of loops, and those emitted
\* before one of them.
TopOkCalls == {o \in OkCalls : EnclosingLoopVars(BlockOf(o)) = {}}
OkCallsBefore(o) == {p \in TopOkCalls : p.r < o.r}

\* A specifier without a call stands between two specifiers with a call, or
\* between one and the items.
SetterThenPreprocessed ==
    \E m, n \in 1..Len(stmt.specs) :
        /\ m < n
        /\ stmt.specs[m] \in SetterSpecs
        /\ stmt.specs[n] \in PreprocessedSpecs
        /\ \/ stmt.items # <<>>
           \/ \E k \in (n + 1)..Len(stmt.specs) : stmt.specs[k] \in SetterSpecs

\* The items of the statement are variables: every flag is the result of a
\* call.
ScalarItemsOnly == \A n \in 1..Len(stmt.items) : stmt.items[n].k = "item"

\* C34: in a statement with IOSTAT= or ERR=, a specifier that is processed
\* in advance opens no guard of its own and closes none: a specifier or item
\* call outside of loops lies in the guards on the results of the calls
\* emitted before it, in exactly one for each of them (a specifier that is
\* queried after the transfer opens a second guard on the same flag, so
\* statements with one are not counted), and the call is executed only if
\* all of them returned true.
C34_PreprocessedKeepsGuard ==
    (pc # "lower" /\ hasErrorConditionSpec(csiOf(stmt))
        /\ stmt.kind \notin {"INQUIRE", "INQUIRE_IOLENGTH"}) =>
        /\ ScalarItemsOnly =>
              \A o \in TopOkCalls :
                  {g.cond : g \in FlagGuards(BlockOf(o))}
                      = {p.r : p \in OkCallsBefore(o)}
        /\ (ScalarItemsOnly /\ Range(stmt.specs) \cap DeferredSpecs = {}) =>
              \A o \in TopOkCalls :
                  Cardinality(FlagGuards(BlockOf(o)))
                      = Cardinality(OkCallsBefore(o))
        /\ \A n \in Events({"spec", "item"}) :
              \A m \in Events({"spec", "item"}) : m < n => trace[m].res = 1

\* REC= failed before IOSTAT= in a READ: the item call, which follows the
\* preprocessed specifier, is in the guard on the result of REC= and is not
\* executed.
C34_Witness ==
    /\ pc = "done"
    /\ SetterThenPreprocessed
    /\ stmt.specs = <<"REC", "IOSTAT">>
    /\ stmt.items # <<>>
    /\ \E n \in Failed : trace[n].item = "REC"
    /\ Events({"item"}) = {}
    /\ \E o \in TopOkCalls :
          o.cls = "item" /\ Cardinality(FlagGuards(BlockOf(o))) = 1

\* ------------------------------------------------------------------ C35
RECURSIVE ThreadedFlag(_, _)
\* The specifier whose call's result is the flag when the specifiers are
\* threaded: "" if there is none.  A setter yields its result, a specifier
\* that is queried after the transfer hands the flag on, a preprocessed one
\* yields none.
ThreadedFlag(specList, flag) ==
    IF specList = <<>>
    THEN flag
    ELSE ThreadedFlag(Tail(specList),
                      CASE Head(specList) \in DeferredSpecs -> flag
                        [] Head(specList) \in PreprocessedSpecs -> ""
                        [] OTHER -> Head(specList))

SpecCalls == {o \in OkCalls : o.cls = "spec"}
ItemCalls == {o \in OkCalls : o.cls = "item"}

\* The flags a call is guarded on.
GuardFlags(o) == {g.cond : g \in FlagGuards(BlockOf(o))}

\* C35: in a READ or WRITE without IOSTAT= and ERR=, no specifier call is
\* guarded and every one is executed; without END= and EOR= too, no item
\* call is guarded; with END= or EOR=, the first item call is guarded on the
\* flag that the specifier list ends with, if there is one, and every later
\* item call on the results of the item calls before it as well.
C35_EndOnlyGuardsItems ==
    (pc # "lower" /\ stmt.kind \in {"READ", "WRITE"}
        /\ Range(stmt.specs) \cap {"IOSTAT", "ERR"} = {}) =>
        /\ \A o \in SpecCalls : GuardFlags(o) = {}
        /\ (pc = "done" /\ ~UnitRejected) =>
              \A o \in SpecCalls :
                  \E n \in Events({"spec"}) : trace[n].item = o.item
        /\ Range(stmt.specs) \cap {"END", "EOR"} = {} =>
              \A o \in ItemCalls : FlagGuards(BlockOf(o)) = {}
        /\ (Range(stmt.specs) \cap {"END", "EOR"} # {} /\ ScalarItemsOnly) =>
              \A o \in ItemCalls :
                  GuardFlags(o) =
                      {p.r : p \in {p \in ItemCalls : p.r < o.r}}
                      \cup {p.r : p \in {p \in SpecCalls :
                                   p.item = ThreadedFlag(stmt.specs, "")}}

\* REC= failed in a READ with END= and ADVANCE=: ADVANCE=, the last
\* specifier, was set all the same, and the item was transferred since
\* ADVANCE= succeeded.
C35_Witness ==
    /\ pc = "done"
    /\ stmt.kind = "READ"
    /\ stmt.specs = <<"REC", "END", "ADVANCE">>
    /\ \E n \in Failed : trace[n].item = "REC"
    /\ \E n \in Events({"spec"}) : trace[n].item = "ADVANCE"
    /\ Events({"item"}) # {}
    /\ \E o \in ItemCalls : Cardinality(GuardFlags(o)) = 1

\* ------------------------------------------------------------------ C36
\* The guards on the result of a unit range check, and the calls of the
\* statement that end it or query it after the transfer.
UnitGuards ==
    {g \in AllOps : g.k = "if" /\ \E c \in AllOps : c.k = "cmpeq0" /\ c.r = g.cond}
RangeChecks == {o \in AllOps : o.k = "call" /\ o.cls = "check"}
EndCalls == {o \in AllOps : o.k = "call" /\ o.fn = "EndIoStatement"}
ClosingCalls ==
    {o \in AllOps : o.k = "call" /\ o.fn \in {"GetSize", "GetAsynchronousId",
                                             "GetIoMsg", "EndIoStatement"}}

BeginTable(dir) ==
    [unit \in {"InternalArray", "Internal", "External"} |->
        [form \in {"List", "Formatted"} |-> "Begin" \o unit \o form \o dir]]

\* The entry in the table for the five values.
BeginEntry(isInput, isFormatted, isListOrNml, isInternal, isInternalWithDesc) ==
    LET dir == IF isInput THEN "Input" ELSE "Output"
    IN IF ~isFormatted /\ ~isListOrNml
       THEN "BeginUnformatted" \o dir
       ELSE BeginTable(dir)[CASE isInternal /\ isInternalWithDesc ->
                                     "InternalArray"
                              [] isInternal /\ ~isInternalWithDesc -> "Internal"
                              [] OTHER -> "External"]
                           [IF isListOrNml THEN "List" ELSE "Formatted"]

ListEntryPoints ==
    {BeginTable(dir)[unit]["List"] :
        <<dir, unit>> \in {"Input", "Output"} \X
                          {"InternalArray", "Internal", "External"}}

\* The begin call of a data transfer statement that was executed.
BeginEvents == {n \in Events({"begin"}) : stmt.kind \in {"READ", "WRITE", "PRINT"}}

\* C37: the begin entry point is the table's entry for every five values,
\* with BeginUnformatted for a transfer that is neither formatted nor list
\* or namelist whatever the kind of unit; the begin call of a READ, WRITE or
\* PRINT is the entry for the statement's values, and the one of a namelist
\* transfer is a List entry point.
C37_BeginEntryPoint ==
    /\ \A v \in BOOLEAN \X BOOLEAN \X BOOLEAN \X BOOLEAN \X BOOLEAN :
          getBeginDataTransferFunc(v[1], v[2], v[3], v[4], v[5])
              = BeginEntry(v[1], v[2], v[3], v[4], v[5])
    /\ \A n \in BeginEvents :
          /\ trace[n].fn =
                 BeginEntry(stmt.kind = "READ",
                            stmt.kind = "PRINT"
                                \/ stmt.format \in {"star", "fmt", "assigned"},
                            stmt.format \in {"star", "nml"},
                            stmt.io # "external",
                            stmt.io # "external"
                                /\ maybeGetInternalIODescriptor(stmt))
          /\ stmt.format = "nml" => trace[n].fn \in ListEntryPoints

\* A namelist READ from an internal unit that needs a descriptor began with
\* BeginInternalArrayListInput.
C37_Witness ==
    /\ stmt.kind = "READ"
    /\ stmt.format = "nml"
    /\ \E n \in BeginEvents : trace[n].fn = "BeginInternalArrayListInput"

\* ------------------------------------------------------------------ C38
\* The statement has one of IOSTAT=, ERR=, END=, EOR=.
HasStatusConsumer ==
    LET csi == csiOf(stmt)
    IN csi.ioStat \/ csi.hasErr \/ csi.hasEnd \/ csi.hasEor

MsgCalls == {o \in AllOps : o.k = "call" /\ o.fn = "GetIoMsg"}

\* C38: genEndIO returns a value exactly if one of IOSTAT=, ERR=, END=,
\* EOR= is present, and the value is then the result of the end call or of
\* the guard of an oversized unit around it; in every case it emits the one
\* EndIoStatement call, and with IOMSG= the one GetIoMsg call, and unless
\* the unit is rejected both are executed when nothing is returned too.
C38_EndStatusReturned ==
    pc # "lower" =>
        /\ ir.ret # NULL <=> HasStatusConsumer
        /\ ir.ret # NULL =>
              ir.ret \in {e.r : e \in EndCalls} \cup {g.r : g \in UnitGuards}
        /\ Cardinality(EndCalls) = 1
        /\ Cardinality(MsgCalls) = B2I(csiOf(stmt).ioMsg)
        /\ (pc = "done" /\ ir.ret = NULL) =>
              /\ Cardinality(Calls("EndIoStatement")) = 1
              /\ Cardinality(Calls("GetIoMsg")) = B2I(csiOf(stmt).ioMsg)

\* A statement with IOMSG= alone: GetIoMsg and EndIoStatement were called
\* and nothing is returned.
C38_Witness ==
    /\ pc = "done"
    /\ stmt.specs = <<"IOMSG">>
    /\ ir.ret = NULL
    /\ Calls("GetIoMsg") # {}
    /\ Calls("EndIoStatement") # {}

\* =================================================================== C39
\* ExpandModularHeadersPPCallbacks: the module files that an inclusion
\* directive imports.  The variables hold: stmt the Imports of the module
\* files looked at so far, store the members VisitedModules and the
\* recorder's FilesToRecord, stack the activations of handleModuleFile as
\* <<module file, imports handled>> with 0 for "at the entry", trace the
\* calls of visitInputFiles, round the number of directives seen, pc the
\* position in the callback.
MaxModules == 3
MaxImports == 2
MaxDirectives == 2

ModuleFiles == 1..MaxModules

\* The Imports a module file can have: other module files or itself, in any
\* order.  The import graph is fixed before the first callback; the Imports
\* of a module file are drawn when it is first looked at, which yields
\* every graph: cycles, shared imports, chains.
ImportLists == SeqsNoRep(ModuleFiles, MaxImports)

\* The input files of a module file: its own header and one that every
\* module file has.
InputFiles(MF) == {MF, MaxModules + 1}

\* A variant of the insertion that reports every module file as new.
VisitedInsertAlways(VisitedModules, MF) ==
    [second |-> TRUE, set |-> VisitedModules \cup {MF}]

\* VisitedModules.insert(MF): the set afterwards, and whether MF was new.
VisitedInsert(VisitedModules, MF) ==
    [second |-> MF \notin VisitedModules, set |-> VisitedModules \cup {MF}]

InitModules ==
    /\ stmt = [Imports |-> <<>>]
    /\ ir = NewBuilder
    /\ pc = "idle"
    /\ stack = <<>>
    /\ env = <<>>
    /\ store = [VisitedModules |-> {}, FilesToRecord |-> {}]
    /\ trace = <<>>
    /\ fails = 0
    /\ loopLog = NoLog
    /\ round = 0
    /\ prevTrace = <<>>

\* handleModuleFile returns: its activation is removed, and the callback
\* goes on after the outermost one.
Return ==
    /\ stack' = Pop(stack)
    /\ pc' = IF Len(stack) = 1 THEN "parse" ELSE "handle"

\* InclusionDirective: for an imported module the module file is looked up,
\* which may yield none, and handled.
InclusionDirective ==
    /\ pc = "idle"
    /\ round < MaxDirectives
    /\ round' = round + 1
    /\ \E ModuleImported \in BOOLEAN, MF \in ModuleFiles \cup {NULL} :
          IF ModuleImported
          THEN stack' = << <<MF, 0>> >> /\ pc' = "handle"
          ELSE MF = NULL /\ stack' = <<>> /\ pc' = "parse"
    /\ UNCHANGED <<stmt, ir, env, store, trace, fails, loopLog, prevTrace>>

\* handleModuleFile up to the loop over the imports: nothing for no module
\* file and for one that was visited; otherwise its input files are handed
\* to the recorder.
HandleModuleFile ==
    /\ pc = "handle"
    /\ Top[2] = 0
    /\ LET MF == Top[1]
           inserted == VisitedInsert(store.VisitedModules, MF)
       IN IF MF = NULL
          THEN Return /\ UNCHANGED <<stmt, store, trace>>
          ELSE /\ \E imports \in ImportLists :
                     stmt' = IF MF \in DOMAIN stmt.Imports
                             THEN stmt
                             ELSE [stmt EXCEPT !.Imports = (MF :> imports) @@ @]
               /\ IF ~inserted.second
                  THEN /\ Return
                       /\ store' = [store EXCEPT !.VisitedModules = inserted.set]
                       /\ UNCHANGED trace
                  ELSE /\ store' = [VisitedModules |-> inserted.set,
                                    FilesToRecord |-> store.FilesToRecord
                                                       \cup InputFiles(MF)]
                       /\ trace' = Append(trace, [fn |-> "visitInputFiles",
                                                  MF |-> MF,
                                                  files |-> InputFiles(MF)])
                       /\ stack' = [stack EXCEPT ![Len(stack)][2] = 1]
                       /\ pc' = "handle"
    /\ UNCHANGED <<ir, env, fails, loopLog, round, prevTrace>>

\* The loop over MF->Imports: the next import is handled, after the last
\* one handleModuleFile returns.  (The activations are bounded for the
\* variants that do not end.)
HandleImports ==
    /\ pc = "handle"
    /\ Top[2] >= 1
    /\ LET Imports == stmt.Imports[Top[1]]
       IN IF Top[2] <= Len(Imports)
          THEN /\ Len(stack) <= MaxModules + 1
               /\ stack' = Append([stack EXCEPT ![Len(stack)][2] = @ + 1],
                                  <<Imports[Top[2]], 0>>)
               /\ pc' = "handle"
          ELSE Return
    /\ UNCHANGED <<stmt, ir, env, store, trace, fails, loopLog, round,
                   prevTrace>>

\* parseToLocation: the callback ends.
ParseToLocation ==
    /\ pc = "parse"
    /\ pc' = "idle"
    /\ UNCHANGED <<stmt, ir, stack, env, store, trace, fails, loopLog, round,
                   prevTrace>>

NextModules ==
    InclusionDirective \/ HandleModuleFile \/ HandleImports \/ ParseToLocation

SpecModules == InitModules /\ [][NextModules]_vars

\* A callback that has begun goes on until it ends.
SpecModulesFair == SpecModules /\ WF_vars(NextModules)

\* The module files whose input files were handed to the recorder.
Processed(MF) == {n \in 1..Len(trace) : trace[n].MF = MF}

\* The activations of handleModuleFile that are in the loop over the imports.
Descended == {n \in 1..Len(stack) : stack[n][2] >= 1}

ModulesProcessedOnce ==
    /\ \A MF \in ModuleFiles : Cardinality(Processed(MF)) <= 1
    /\ store.VisitedModules = {trace[n].MF : n \in 1..Len(trace)}
    /\ NULL \notin store.VisitedModules
    /\ store.FilesToRecord =
           UNION {InputFiles(MF) : MF \in store.VisitedModules}
    /\ \A m, n \in Descended : stack[m][1] = stack[n][1] => m = n
    /\ Len(stack) <= MaxModules + 1

\* C39: for every sequence of inclusion directives and every import graph,
\* handleModuleFile returns, and it processes a module file at most once:
\* the input files of a module file are handed to the recorder once, when it
\* enters VisitedModules; no module file, and a module file that is in
\* VisitedModules, is not descended into, so no module file has two
\* activations in the loop over its imports and the activations are at most
\* one more than the module files.
C39_ModuleFileHandledOnce ==
    /\ []ModulesProcessedOnce
    /\ (pc = "handle") ~> (pc = "parse")

\* The second directive has been handled; all module files are visited,
\* two of them import each other, one imports itself, and one is imported
\* by a module file and by an import of that module file.
C39_Witness ==
    /\ pc = "parse"
    /\ round = MaxDirectives
    /\ store.VisitedModules = ModuleFiles
    /\ \E a, b \in ModuleFiles :
          /\ a # b
          /\ b \in Range(stmt.Imports[a])
          /\ a \in Range(stmt.Imports[b])
    /\ \E a \in ModuleFiles : a \in Range(stmt.Imports[a])
    /\ \E a, b, c \in ModuleFiles :
          /\ Cardinality({a, b, c}) = 3
          /\ stmt.Imports[a] = <<b, c>>
          /\ c \in Range(stmt.Imports[b])

====
